---- MODULE Spec2Model ----
\* A model of the Fireflies meeting fetcher: the orchestrator of main.py, the
\* GraphQL client of fireflies_client.py, the configuration of config.py and
\* the save-index and file persistence of transcript_formatter.py.
EXTENDS Integers, Sequences, FiniteSets, TLC

\* ------------------------------------------------------------------ bounds
\* Longest listing the provider holds.
MaxListing == 2
\* Process lifetimes (runs of main) against one output directory.
MaxRuns == 2
\* Longest listing the provider holds when the client is called directly.
MaxHeld == 3
\* Largest page size the pagination is exercised with.
MaxPageSize == 2

\* Most documents the output directory holds when the formatter is called
\* directly.
MaxDocs == 3

\* Longest title sanitize_filename is called with.
MaxTitleLen == 4

\* Longest duration, in minutes, format_duration is called with.
MaxDuration == 125

\* Most distinct names the two participant lists hold together.
MaxPeople == 6

\* Most utterances of a transcript that is rendered.
MaxUtterances == 2

\* ------------------------------------------------------- program constants
\* fireflies_client.py: "if limit > 50".
ApiMaxLimit == 50
\* config.py: MAX_TRANSCRIPTS_PER_QUERY must be between 1 and 50.
MaxPerQueryCap == 50
\* config.py: "if len(self.api_key) < 10".
MinApiKeyLen == 10
\* config.py: MONTHS_TO_FETCH must be between 1 and 12.
MaxMonths == 12
\* transcript_formatter.py: sanitize_filename(title, max_length=100).
MaxFilenameLen == 100

\* ------------------------------------------------------------- small helpers
NoCode == "none"

Last(s) == s[Len(s)]

RECURSIVE Concat(_)
Concat(ss) == IF ss = <<>> THEN <<>> ELSE Head(ss) \o Concat(Tail(ss))

SeqsUpTo(S, n) == UNION {[1..k -> S] : k \in 0..n}

\* ------------------------------------------------------------ HTTP exchange
\* What one POST can come back with.  transport: the requests library raised
\* instead of returning; status: HTTP status; body: how the body parses
\* ("malformed" is no JSON, "scalar" is JSON null/number/boolean, "array" a
\* JSON list, "object" a JSON object); errors: the object's "errors" member;
\* ext: the first error's "extensions" member; has_data: the object has a
\* "data" member; auth_text: the provider's text mentions "unauthorized".
Transports == {"ok", "timeout", "connection", "other"}
Statuses == {200, 401, 403, 429, 500}

OkResponse ==
    [transport |-> "ok", status |-> 200, body |-> "object", errors |-> "absent",
     ext |-> "absent", has_data |-> TRUE, auth_text |-> FALSE]

Responses ==
    {[OkResponse EXCEPT !.transport = t] : t \in Transports}
    \cup {[OkResponse EXCEPT !.status = s, !.auth_text = a] :
            s \in Statuses, a \in BOOLEAN}
    \cup {[OkResponse EXCEPT !.body = b] : b \in {"malformed", "scalar", "array"}}
    \cup {[OkResponse EXCEPT !.errors = e, !.has_data = d] :
            e \in {"absent", "empty"}, d \in BOOLEAN}
    \cup {[OkResponse EXCEPT !.errors = "nonempty", !.ext = x, !.has_data = d,
                             !.auth_text = a] :
            x \in {"absent", "code", "nocode", "null"}, d \in BOOLEAN, a \in BOOLEAN}

\* Results of a call: data, the API error, or another Python exception.
Data == [kind |-> "data", msg |-> "", code |-> NoCode, auth |-> FALSE]
ApiError(m, c, a) == [kind |-> "api_error", msg |-> m, code |-> c, auth |-> a]
Raised(type) == [kind |-> "exception", msg |-> type, code |-> NoCode, auth |-> FALSE]

\* error.get("extensions", {}).get("code") of the first error.
FirstErrorCode(r) == IF r.ext = "code" THEN "E1" ELSE NoCode

MakeGraphqlRequest(r) ==
    IF r.transport = "timeout" THEN ApiError("Request timed out", NoCode, FALSE)
    ELSE IF r.transport = "connection" THEN ApiError("Connection error", NoCode, FALSE)
    ELSE IF r.transport = "other" THEN ApiError("Request failed", NoCode, FALSE)
    ELSE IF r.status = 401 THEN ApiError("Authentication failed", NoCode, TRUE)
    ELSE IF r.status = 429 THEN ApiError("Rate limit exceeded", NoCode, FALSE)
    ELSE IF r.status >= 400 THEN ApiError("HTTP error", NoCode, r.auth_text)
    ELSE IF r.body = "malformed" THEN ApiError("Invalid JSON response", NoCode, FALSE)
    \* "errors" in data: a TypeError when data is None, a number or a boolean
    ELSE IF r.body = "scalar" THEN Raised("TypeError")
    ELSE IF r.body = "array" THEN ApiError("No data in response", NoCode, FALSE)
    ELSE IF r.errors = "nonempty" THEN
        \* "extensions": null makes .get("code") an AttributeError
        IF r.ext = "null" THEN Raised("AttributeError")
        ELSE ApiError("GraphQL errors", FirstErrorCode(r), r.auth_text)
    ELSE IF ~r.has_data THEN ApiError("No data in response", NoCode, FALSE)
    ELSE Data

\* ------------------------------------------------------------ retry policy
\* _create_session: Retry(total=3, status_forcelist=[429, 500, 502, 503, 504],
\* allowed_methods=["POST"], raise_on_status=False) mounted on the session.
\* total counts the retries, so the first attempt is not among them.
RetryTotal == 3
StatusForcelist == {429, 500, 502, 503, 504}
\* Retry's default respect_retry_after_header: these statuses are retried as
\* well when the response carries a Retry-After header.
RetryAfterStatusCodes == {413, 429, 503}

\* One attempt on the wire: no response (a connection or read error), or a
\* response with its status and whether it carries a Retry-After header.
WireStatuses == {200, 404, 413, 429, 500, 501}
WireError == [error |-> TRUE, status |-> 0, retry_after |-> FALSE]
WireResponse(s, h) == [error |-> FALSE, status |-> s, retry_after |-> h]
WireAttempts ==
    {WireError}
    \cup {WireResponse(s, FALSE) : s \in WireStatuses}
    \cup {WireResponse(s, TRUE) : s \in {404, 413}}

\* A policy that retries every error status.
IsRetry_AnyErrorStatus(a, left) ==
    IF a.error THEN TRUE ELSE a.status >= 400

\* Retry.is_retry for a POST, with left retries remaining; an attempt without
\* a response is retried as a connect or read error.
IsRetry(a, left) ==
    IF a.error THEN TRUE
    ELSE \/ a.status \in StatusForcelist
         \/ left > 0 /\ a.retry_after /\ a.status \in RetryAfterStatusCodes

\* The attempt a, made after the attempts in wire: TRUE when the adapter
\* sends the POST again, FALSE when session.post ends with a (the last
\* response is returned, or the error raised, once the retries are used up).
SendsAgain(wire, a) ==
    LET left == RetryTotal - Len(wire)
    IN  IsRetry(a, left) /\ left > 0

\* What session.post ends with after the last attempt a.
PostResult(a) ==
    IF a.error THEN [OkResponse EXCEPT !.transport = "connection"]
    ELSE [OkResponse EXCEPT !.status = a.status]

\* ------------------------------------------------------------ configuration
\* A date is <<year, month, day>>; the time of day plays no part in the model.
DateLE(a, b) ==
    \/ a[1] < b[1]
    \/ a[1] = b[1] /\ a[2] < b[2]
    \/ a[1] = b[1] /\ a[2] = b[2] /\ a[3] <= b[3]

IsLeap(y) == (y % 4 = 0 /\ y % 100 # 0) \/ y % 400 = 0

DaysInMonth(y, m) ==
    IF m = 2 THEN (IF IsLeap(y) THEN 29 ELSE 28)
    ELSE IF m \in {4, 6, 9, 11} THEN 30 ELSE 31

\* An environment value of a date override: unset, blank, text no accepted
\* format parses, text that parses to the date d without a UTC offset, or
\* (AwareText) text with a UTC offset, which datetime.fromisoformat parses to
\* an offset-aware datetime.
Unset == [kind |-> "unset", d |-> <<0, 0, 0>>]
Blank == [kind |-> "blank", d |-> <<0, 0, 0>>]
BadText == [kind |-> "bad", d |-> <<0, 0, 0>>]
DateText(d) == [kind |-> "date", d |-> d]
AwareText(d) == [kind |-> "aware", d |-> d]

\* The outcome of a date computation: a value or a raised ValueError; for a
\* range also the TypeError of comparing an offset-aware datetime with a
\* naive one.
DateOk(d) == [ok |-> TRUE, d |-> d]
DateErr == [ok |-> FALSE, d |-> <<0, 0, 0>>]
RangeOk(a, b) == [ok |-> TRUE, from |-> a, to |-> b, error |-> "none"]
RangeErr == [ok |-> FALSE, from |-> <<0, 0, 0>>, to |-> <<0, 0, 0>>,
             error |-> "value_error"]
RangeTypeErr == [ok |-> FALSE, from |-> <<0, 0, 0>>, to |-> <<0, 0, 0>>,
                 error |-> "type_error"]

\* Config._parse_iso_datetime: the value stripped and parsed, or ValueError.
ParseIsoDatetime(v) == IF v.kind \in {"date", "aware"} THEN DateOk(v.d) ELSE DateErr

\* datetime.replace(year=y, month=m): ValueError when the day is not in the month.
ReplaceMonth(d, y, m) ==
    IF d[3] > DaysInMonth(y, m) THEN DateErr ELSE DateOk(<<y, m, d[3]>>)

\* The loop of get_date_range: n times one month back.
RECURSIVE MonthsBack(_, _)
MonthsBack(d, n) ==
    IF n = 0 THEN DateOk(d)
    ELSE LET r == IF d[2] = 1 THEN ReplaceMonth(d, d[1] - 1, 12)
                  ELSE ReplaceMonth(d, d[1], d[2] - 1)
         IN  IF r.ok THEN MonthsBack(r.d, n - 1) ELSE DateErr

\* "if self.from_date_override and self.from_date_override.strip()".
IsSet(v) == v.kind \in {"bad", "date", "aware"}

\* get_date_range; today stands for datetime.utcnow(), which is naive.
GetDateRange_RelativeEndsAtTo(e, today) ==
    IF IsSet(e.from_ov) THEN
        LET f == ParseIsoDatetime(e.from_ov)
            t == IF IsSet(e.to_ov) THEN ParseIsoDatetime(e.to_ov) ELSE DateOk(today)
            to_aware == IsSet(e.to_ov) /\ e.to_ov.kind = "aware"
        IN  IF ~f.ok THEN RangeErr
            ELSE IF ~t.ok THEN RangeErr
            ELSE IF (e.from_ov.kind = "aware") # to_aware THEN RangeTypeErr
            ELSE IF ~DateLE(f.d, t.d) THEN RangeErr
            ELSE RangeOk(f.d, t.d)
    ELSE LET end == IF ParseIsoDatetime(e.to_ov).ok THEN e.to_ov.d ELSE today
             s == MonthsBack(end, e.months)
         IN  IF s.ok THEN RangeOk(s.d, end) ELSE RangeErr

GetDateRange(e, today) ==
    IF IsSet(e.from_ov) THEN
        LET f == ParseIsoDatetime(e.from_ov)
            t == IF IsSet(e.to_ov) THEN ParseIsoDatetime(e.to_ov) ELSE DateOk(today)
            to_aware == IsSet(e.to_ov) /\ e.to_ov.kind = "aware"
        IN  IF ~f.ok THEN RangeErr
            ELSE IF ~t.ok THEN RangeErr
            ELSE IF (e.from_ov.kind = "aware") # to_aware THEN RangeTypeErr
            ELSE IF ~DateLE(f.d, t.d) THEN RangeErr
            ELSE RangeOk(f.d, t.d)
    ELSE LET s == MonthsBack(today, e.months)
         IN  IF s.ok THEN RangeOk(s.d, today) ELSE RangeErr

\* Config.__init__ without the check of the base URL.
ConfigValid_IgnoresBaseUrl(e) ==
    /\ e.api_key_len > 0
    /\ ~(e.api_key_len < MinApiKeyLen)
    /\ ~(e.months < 1 \/ e.months > MaxMonths)
    /\ ~(e.max_per_query < 1 \/ e.max_per_query > MaxPerQueryCap)

\* Config.__init__ with _get_required_env and _validate_config: TRUE when the
\* construction returns, FALSE when it raises ValueError.
ConfigValid(e) ==
    /\ e.api_key_len > 0
    /\ ~(e.api_key_len < MinApiKeyLen)
    /\ ~(e.months < 1 \/ e.months > MaxMonths)
    /\ ~(e.max_per_query < 1 \/ e.max_per_query > MaxPerQueryCap)
    /\ e.https

\* ------------------------------------------------------------------ client
\* Transcript ids; "" stands for a missing or empty id.
Ids == {"t1", "t2"}
NoId == ""

\* The title the provider holds for a transcript, as a sequence of characters.
\* The two titles sanitize to the same file name.
TitleOf(id) == IF id = "t1" THEN <<"a", "!">> ELSE <<"a">>

\* The records of the provider: a listing entry and a detail record.
DetailOf(id) == [id |-> id, title |-> TitleOf(id)]

\* The page the provider answers a list request with.
ProviderPage(listing, limit, skip) ==
    LET hi == IF skip + limit < Len(listing) THEN skip + limit ELSE Len(listing)
    IN  SubSeq(listing, skip + 1, hi)

\* The outcome of a client call: kind is "ok", "api_error" (FirefliesAPIError)
\* or "value_error" (ValueError); sent tells whether a request went out.
CallOk(v) == [kind |-> "ok", value |-> v, sent |-> TRUE, code |-> NoCode, auth |-> FALSE]
CallApiError(c, a) ==
    [kind |-> "api_error", value |-> <<>>, sent |-> TRUE, code |-> c, auth |-> a]
CallValueError ==
    [kind |-> "value_error", value |-> <<>>, sent |-> FALSE, code |-> NoCode, auth |-> FALSE]

\* fetch_transcripts without its check of skip.
FetchTranscripts_NoSkipCheck(limit, skip, r, page) ==
    IF limit > ApiMaxLimit THEN CallValueError
    ELSE LET res == MakeGraphqlRequest(r)
         IN  IF res.kind = "data" THEN CallOk(page)
             ELSE IF res.kind = "api_error" THEN CallApiError(res.code, res.auth)
             ELSE CallApiError(NoCode, FALSE)

\* fetch_transcripts(limit, skip) answered by response r carrying page.
FetchTranscripts(limit, skip, r, page) ==
    IF limit > ApiMaxLimit THEN CallValueError
    ELSE IF skip < 0 THEN CallValueError
    ELSE LET res == MakeGraphqlRequest(r)
         IN  IF res.kind = "data" THEN CallOk(page)
             ELSE IF res.kind = "api_error" THEN CallApiError(res.code, res.auth)
             \* except Exception: wrapped as "Failed to fetch transcripts"
             ELSE CallApiError(NoCode, FALSE)

\* The "transcript" member of a detail response: a record, an empty record,
\* null, or no such member; "if not transcript" lets only the first through.
TranscriptMembers == {"record", "empty", "null", "absent"}
Truthy(member) == member = "record"

\* fetch_transcript_details handing on whatever data.get("transcript") gave.
FetchTranscriptDetails_NoFoundCheck(id, r, found) ==
    IF id = NoId THEN CallValueError
    ELSE LET res == MakeGraphqlRequest(r)
         IN  IF res.kind = "data" THEN CallOk(IF found THEN DetailOf(id) ELSE <<>>)
             ELSE IF res.kind = "api_error" THEN CallApiError(res.code, res.auth)
             ELSE CallApiError(NoCode, FALSE)

\* fetch_transcript_details(id) answered by response r; found: the response's
\* "transcript" member is a record (TRUE) or null/absent (FALSE).
FetchTranscriptDetails(id, r, found) ==
    IF id = NoId THEN CallValueError
    ELSE LET res == MakeGraphqlRequest(r)
         IN  IF res.kind = "data" THEN
                 IF found THEN CallOk(DetailOf(id)) ELSE CallApiError(NoCode, FALSE)
             ELSE IF res.kind = "api_error" THEN CallApiError(res.code, res.auth)
             ELSE CallApiError(NoCode, FALSE)

\* The loop swallowing a failed page and returning what it has.
FetchAllStep_ReturnsPartial(skip_, acc, p, res) ==
    IF res.kind # "ok" THEN [next |-> "done", skip |-> skip_, acc |-> acc]
    ELSE IF Len(res.value) = 0 THEN [next |-> "done", skip |-> skip_, acc |-> acc]
    ELSE IF Len(res.value) < p
         THEN [next |-> "done", skip |-> skip_, acc |-> acc \o res.value]
    ELSE [next |-> "more", skip |-> skip_ + p, acc |-> acc \o res.value]

\* The loop advancing skip by the number of pages instead of by the page size.
FetchAllStep_SkipsByOne(skip_, acc, p, res) ==
    IF res.kind # "ok" THEN [next |-> "raise", skip |-> skip_, acc |-> acc]
    ELSE IF Len(res.value) = 0 THEN [next |-> "done", skip |-> skip_, acc |-> acc]
    ELSE IF Len(res.value) < p
         THEN [next |-> "done", skip |-> skip_, acc |-> acc \o res.value]
    ELSE [next |-> "more", skip |-> skip_ + 1, acc |-> acc \o res.value]

\* fetch_all_transcripts_in_range without its "skip += max_per_query".
FetchAllStep_NoAdvance(skip_, acc, p, res) ==
    IF res.kind # "ok" THEN [next |-> "raise", skip |-> skip_, acc |-> acc]
    ELSE IF Len(res.value) = 0 THEN [next |-> "done", skip |-> skip_, acc |-> acc]
    ELSE IF Len(res.value) < p
         THEN [next |-> "done", skip |-> skip_, acc |-> acc \o res.value]
    ELSE [next |-> "more", skip |-> skip_, acc |-> acc \o res.value]

\* One iteration of the loop of fetch_all_transcripts_in_range, on the result
\* res of its fetch_transcripts call: "raise" (res propagates), "done" (break)
\* or "more" (next iteration), with the loop's variables after it.
FetchAllStep(skip_, acc, p, res) ==
    IF res.kind # "ok" THEN [next |-> "raise", skip |-> skip_, acc |-> acc]
    ELSE IF Len(res.value) = 0 THEN [next |-> "done", skip |-> skip_, acc |-> acc]
    ELSE IF Len(res.value) < p
         THEN [next |-> "done", skip |-> skip_, acc |-> acc \o res.value]
    ELSE [next |-> "more", skip |-> skip_ + p, acc |-> acc \o res.value]

\* validate_api_key on response r: "true", "false" or "raise".
ValidateApiKey(r) ==
    LET res == MakeGraphqlRequest(r)
    IN  IF res.kind = "data" THEN "true"
        ELSE IF res.kind = "api_error" THEN (IF res.auth THEN "false" ELSE "raise")
        ELSE "false"

\* --------------------------------------------------------------- formatter
\* Text is a sequence of one-character strings.
Whitespace == {" "}
UnsafeChars == {"<", ">", ":", "\"", "/", "\\", "|", "?", "*", "!"}
Extension == <<".", "m", "d">>

RECURSIVE LStrip(_, _)
LStrip(s, set) ==
    IF s # <<>> /\ Head(s) \in set THEN LStrip(Tail(s), set) ELSE s

RECURSIVE RStrip(_, _)
RStrip(s, set) ==
    IF s # <<>> /\ Last(s) \in set THEN RStrip(SubSeq(s, 1, Len(s) - 1), set) ELSE s

Strip(s, set) == RStrip(LStrip(s, set), set)

\* re.sub(r'[<>:"/\\|?*!]', "_", s)
ReplaceUnsafe(s) == [k \in 1..Len(s) |-> IF s[k] \in UnsafeChars THEN "_" ELSE s[k]]

\* re.sub(r"[_\s]+", "_", s)
RECURSIVE CollapseRuns(_)
CollapseRuns(s) ==
    IF s = <<>> THEN <<>>
    ELSE IF Head(s) \in Whitespace \cup {"_"}
         THEN <<"_">> \o CollapseRuns(LStrip(s, Whitespace \cup {"_"}))
    ELSE <<Head(s)>> \o CollapseRuns(Tail(s))

\* f"meeting_{timestamp}" with the timestamp of strftime("%Y%m%d_%H%M%S"):
\* eight digits, an underscore and six digits, here those of midnight on
\* 2024-03-15.
TimestampName ==
    <<"m", "e", "e", "t", "i", "n", "g", "_">>
    \o <<"2", "0", "2", "4", "0", "3", "1", "5">> \o <<"_">>
    \o <<"0", "0", "0", "0", "0", "0">>

SanitizeFilename(title, max_length) ==
    IF Strip(title, Whitespace) = <<>> THEN TimestampName
    ELSE LET sanitized ==
                 Strip(CollapseRuns(ReplaceUnsafe(Strip(title, Whitespace))), {"_", "."})
         IN  IF sanitized = <<>> THEN TimestampName
             ELSE IF Len(sanitized) > max_length
                  THEN RStrip(SubSeq(sanitized, 1, max_length), {"_", "."})
             ELSE sanitized

EndsWith(s, suffix) ==
    /\ Len(s) >= Len(suffix)
    /\ SubSeq(s, Len(s) - Len(suffix) + 1, Len(s)) = suffix

\* str(counter)
RECURSIVE Decimal(_)
Decimal(n) ==
    LET digit == <<"0", "1", "2", "3", "4", "5", "6", "7", "8", "9">>[(n % 10) + 1]
    IN  IF n < 10 THEN <<digit>> ELSE Decimal(n \div 10) \o <<digit>>

\* Path.stem of a name that ends in the extension.
Stem(name) == SubSeq(name, 1, Len(name) - Len(Extension))

\* save_transcript with an "if" for its "while": a taken name gets the
\* suffix _1, taken or not.
FreePath_SuffixOnce(original, counter, existing) ==
    IF original \in existing
    THEN Stem(original) \o <<"_">> \o Decimal(1) \o Extension
    ELSE original

\* save_transcript without its collision loop: it writes to the name it
\* first chose.
FreePath_Overwrites(original, counter, existing) == original

\* The collision loop of save_transcript: the first free name among
\* original, stem_1.md, stem_2.md, ...
RECURSIVE FreePath(_, _, _)
FreePath(original, counter, existing) ==
    LET path == IF counter = 0 THEN original
                ELSE Stem(original) \o <<"_">> \o Decimal(counter) \o Extension
    IN  IF path \in existing THEN FreePath(original, counter + 1, existing) ELSE path

\* The formatter's memory: fm = [id_index, index_loaded].  The index file:
\* ix = [state, map] with state "missing", "ok" or "corrupt".
EmptyMap == <<>>
NewFormatter == [id_index |-> EmptyMap, index_loaded |-> FALSE]
MissingFile == [state |-> "missing", map |-> EmptyMap]
CorruptFile == [state |-> "corrupt", map |-> EmptyMap]
FileWith(m) == [state |-> "ok", map |-> m]

Put(m, k, v) == [x \in DOMAIN m \cup {k} |-> IF x = k THEN v ELSE m[x]]

\* _load_index without its "if self._index_loaded: return".
LoadIndex_NotMemoized(fm, ix) ==
    IF ix.state = "ok" THEN [id_index |-> ix.map, index_loaded |-> TRUE]
    ELSE IF ix.state = "corrupt" THEN [id_index |-> EmptyMap, index_loaded |-> TRUE]
    ELSE [fm EXCEPT !.index_loaded = TRUE]

LoadIndex(fm, ix) ==
    IF fm.index_loaded THEN fm
    ELSE IF ix.state = "ok" THEN [id_index |-> ix.map, index_loaded |-> TRUE]
    ELSE IF ix.state = "corrupt" THEN [id_index |-> EmptyMap, index_loaded |-> TRUE]
    ELSE [fm EXCEPT !.index_loaded = TRUE]

\* _save_index opening the file for exclusive creation: an existing file is
\* never written again.
SaveIndex_KeepsExistingFile(fm, ix, disk) ==
    IF disk = "ok" THEN (IF ix.state = "missing" THEN FileWith(fm.id_index) ELSE ix)
    ELSE IF disk = "dump_fails" THEN CorruptFile
    ELSE ix

\* _save_index; disk: "ok", "open_fails" (the file is left as it is) or
\* "dump_fails" (the file was truncated by open and is left incomplete).
SaveIndex(fm, ix, disk) ==
    IF disk = "ok" THEN FileWith(fm.id_index)
    ELSE IF disk = "dump_fails" THEN CorruptFile
    ELSE ix

\* is_transcript_already_saved loading the index before it looks at the id.
IsTranscriptAlreadySaved_LoadsFirst(id, fm, ix) ==
    LET loaded == LoadIndex(fm, ix)
    IN  IF id = NoId THEN [result |-> FALSE, fm |-> loaded]
        ELSE [result |-> id \in DOMAIN loaded.id_index, fm |-> loaded]

IsTranscriptAlreadySaved(id, fm, ix) ==
    IF id = NoId THEN [result |-> FALSE, fm |-> fm]
    ELSE LET loaded == LoadIndex(fm, ix)
         IN  [result |-> id \in DOMAIN loaded.id_index, fm |-> loaded]

\* record_transcript_saved writing only the entry it was given.
RecordTranscriptSaved_WritesNewEntryOnly(id, name, fm, ix, disk) ==
    IF id = NoId THEN [fm |-> fm, ix |-> ix]
    ELSE LET loaded == LoadIndex(fm, ix)
             updated == [loaded EXCEPT !.id_index = Put(loaded.id_index, id, name)]
             only == [loaded EXCEPT !.id_index = Put(EmptyMap, id, name)]
         IN  [fm |-> updated, ix |-> SaveIndex(only, ix, disk)]

\* record_transcript_saved without its call of _load_index.
RecordTranscriptSaved_SkipsLoad(id, name, fm, ix, disk) ==
    IF id = NoId THEN [fm |-> fm, ix |-> ix]
    ELSE LET updated == [fm EXCEPT !.id_index = Put(fm.id_index, id, name)]
         IN  [fm |-> updated, ix |-> SaveIndex(updated, ix, disk)]

RecordTranscriptSaved(id, name, fm, ix, disk) ==
    IF id = NoId THEN [fm |-> fm, ix |-> ix]
    ELSE LET loaded == LoadIndex(fm, ix)
             updated == [loaded EXCEPT !.id_index = Put(loaded.id_index, id, name)]
         IN  [fm |-> updated, ix |-> SaveIndex(updated, ix, disk)]

\* save_transcript letting a failed write of the index escape as an error.
SaveTranscript_IndexFailureRaises(detail, fm, ix, fs, write_ok, disk) ==
    LET sanitized == SanitizeFilename(detail.title, MaxFilenameLen)
        filename == IF EndsWith(sanitized, Extension) THEN sanitized
                    ELSE sanitized \o Extension
        path == FreePath(filename, 0, DOMAIN fs)
    IN  IF ~write_ok
        THEN [kind |-> "os_error", path |-> path, fm |-> fm, ix |-> ix, fs |-> fs]
        ELSE LET rec == RecordTranscriptSaved(detail.id, path, fm, ix, disk)
             IN  [kind |-> IF disk = "ok" THEN "ok" ELSE "os_error",
                  path |-> path, fm |-> rec.fm, ix |-> rec.ix,
                  fs |-> Put(fs, path, detail.id)]

\* save_transcript recording the id before it writes the document.
SaveTranscript_RecordsBeforeWriting(detail, fm, ix, fs, write_ok, disk) ==
    LET sanitized == SanitizeFilename(detail.title, MaxFilenameLen)
        filename == IF EndsWith(sanitized, Extension) THEN sanitized
                    ELSE sanitized \o Extension
        path == FreePath(filename, 0, DOMAIN fs)
        rec == RecordTranscriptSaved(detail.id, path, fm, ix, disk)
    IN  IF ~write_ok
        THEN [kind |-> "os_error", path |-> path, fm |-> rec.fm, ix |-> rec.ix,
              fs |-> fs]
        ELSE [kind |-> "ok", path |-> path, fm |-> rec.fm, ix |-> rec.ix,
              fs |-> Put(fs, path, detail.id)]

\* save_transcript recording the name it first chose, before the collision
\* loop.
SaveTranscript_RecordsBaseName(detail, fm, ix, fs, write_ok, disk) ==
    LET sanitized == SanitizeFilename(detail.title, MaxFilenameLen)
        filename == IF EndsWith(sanitized, Extension) THEN sanitized
                    ELSE sanitized \o Extension
        path == FreePath(filename, 0, DOMAIN fs)
    IN  IF ~write_ok
        THEN [kind |-> "os_error", path |-> path, fm |-> fm, ix |-> ix, fs |-> fs]
        ELSE LET rec == RecordTranscriptSaved(detail.id, filename, fm, ix, disk)
             IN  [kind |-> "ok", path |-> path, fm |-> rec.fm, ix |-> rec.ix,
                  fs |-> Put(fs, path, detail.id)]

\* save_transcript(detail): fs maps the names of the documents on disk to
\* their content; write_ok: the document can be opened and written.
SaveTranscript(detail, fm, ix, fs, write_ok, disk) ==
    LET sanitized == SanitizeFilename(detail.title, MaxFilenameLen)
        filename == IF EndsWith(sanitized, Extension) THEN sanitized
                    ELSE sanitized \o Extension
        path == FreePath(filename, 0, DOMAIN fs)
    IN  IF ~write_ok
        THEN [kind |-> "os_error", path |-> path, fm |-> fm, ix |-> ix, fs |-> fs]
        ELSE LET rec == RecordTranscriptSaved(detail.id, path, fm, ix, disk)
             IN  [kind |-> "ok", path |-> path, fm |-> rec.fm, ix |-> rec.ix,
                  fs |-> Put(fs, path, detail.id)]

\* ------------------------------------------------------------------- state
VARIABLES
    argv_help,    \* main: sys.argv asks for help
    env,          \* the environment Config reads, with today's date
    listing,      \* the transcripts the provider holds in the range, in order
    pc,           \* where main / FirefliesFetcher.run stands
    run_no,       \* the process lifetime, counted from 1
    stats,        \* FirefliesFetcher.stats
    transcripts,  \* the listing run() holds after fetch_transcript_list
    pos,          \* the loop index i of process_all_transcripts
    fetch,        \* skip and all_transcripts of fetch_all_transcripts_in_range
    fm,           \* TranscriptFormatter._id_index and _index_loaded
    index_file,   \* .fireflies_index.json in the output directory
    files,        \* the documents in the output directory: name -> content
    exit_code,    \* what main returned, once it has
    report,       \* the statistics generate_summary_report printed, if any
    requests,     \* history: the network requests sent in this lifetime
    attempts,     \* history: the process_transcript calls of this lifetime
    prev,         \* history: how the previous lifetime ended
    call          \* a direct call of a client operation and its result

vars == <<argv_help, env, listing, pc, run_no, stats, transcripts, pos, fetch, fm,
          index_file, files, exit_code, report, requests, attempts, prev, call>>

inputs == <<argv_help, env, listing>>
on_disk == <<index_file, files>>

ZeroStats == [total |-> 0, successful |-> 0, failed |-> 0, skipped |-> 0]
NoReport == [printed |-> FALSE, stats |-> ZeroStats]
\* A direct call of a client operation: its arguments, the loop variables of
\* fetch_all (skip, acc), the list requests it sent (log: their skip values),
\* the pages it received, the number of requests sent and how it ended.
\* A call of validate_api_key or of a formatter operation adds its answer; a
\* detail call its id, the "transcript" member of the response and the record
\* returned; a POST the attempts that went over the wire; a formatter
\* operation its id, file name and what the disk did.
NoCall ==
    [op |-> "none", status |-> "idle", limit |-> 0, skip |-> 0, acc |-> <<>>,
     log |-> <<>>, pages |-> <<>>, sent |-> 0, error |-> "none", code |-> NoCode,
     resp |-> OkResponse, answer |-> "none", id |-> NoId, member |-> "none",
     value |-> <<>>, wire |-> <<>>, name |-> <<>>, disk |-> "none"]
\* The exit code of the process: none while main runs, then the one it returned.
Running == <<>>
Exited(code) == <<code>>

\* A request sent and what the call that sent it came back with.
Request(kind, limit, skip_, id, result) ==
    [kind |-> kind, limit |-> limit, skip |-> skip_, id |-> id, result |-> result]

\* The previous lifetime: whether there was one, whether it reached its
\* summary with every listed transcript saved, the disk it left, and the
\* document it had written without recording it when it died, if any.
NoPrev ==
    [ended |-> FALSE, saved_all |-> FALSE, index_file |-> MissingFile,
     files |-> EmptyMap, orphan |-> <<>>]

\* The environments: a valid one, and each setting varied on its own.
GoodEnv ==
    [api_key_len |-> MinApiKeyLen, https |-> TRUE, months |-> 1, max_per_query |-> 1,
     from_ov |-> Unset, to_ov |-> Unset, today |-> <<2024, 3, 15>>]

Envs ==
    {[GoodEnv EXCEPT !.api_key_len = n] : n \in {0, MinApiKeyLen - 1}}
    \cup {[GoodEnv EXCEPT !.https = FALSE]}
    \cup {[GoodEnv EXCEPT !.months = n] : n \in {0, MaxMonths + 1}}
    \cup {[GoodEnv EXCEPT !.max_per_query = n] :
            n \in (0..MaxPageSize) \cup {MaxPerQueryCap + 1}}
    \cup {[GoodEnv EXCEPT !.today = <<2024, 3, 31>>]}
    \cup {[GoodEnv EXCEPT !.from_ov = f] : f \in {BadText, DateText(<<2024, 6, 1>>)}}
    \cup {[GoodEnv EXCEPT !.from_ov = DateText(<<2024, 1, 1>>), !.to_ov = t] :
            t \in {BadText, DateText(<<2024, 2, 1>>), DateText(<<2023, 12, 1>>)}}
    \cup {[GoodEnv EXCEPT !.from_ov = Blank, !.to_ov = BadText]}

Listings == SeqsUpTo(Ids \cup {NoId}, MaxListing)

Fresh ==
    /\ pc = "main"
    /\ stats = ZeroStats
    /\ transcripts = <<>>
    /\ pos = 1
    /\ fetch = [skip |-> 0, acc |-> <<>>]
    /\ fm = NewFormatter
    /\ exit_code = Running
    /\ report = NoReport
    /\ requests = <<>>
    /\ attempts = <<>>

Init ==
    /\ argv_help \in BOOLEAN
    /\ env \in Envs
    /\ listing \in Listings
    /\ run_no = 1
    /\ index_file = MissingFile
    /\ files = EmptyMap
    /\ prev = NoPrev
    /\ call = NoCall
    /\ Fresh

\* run() returns False (or raises into main): main returns 1.
Fail ==
    /\ pc' = "exit"
    /\ exit_code' = Exited(1)

\* main(): the help text, or FirefliesFetcher().run().
Main ==
    /\ pc = "main"
    /\ IF argv_help
       THEN pc' = "exit" /\ exit_code' = Exited(0)
       ELSE pc' = "initialize" /\ exit_code' = exit_code
    /\ UNCHANGED <<inputs, on_disk, run_no, stats, transcripts, pos, fetch, fm, report,
                   requests, attempts, prev, call>>

\* initialize() going on whatever validate_api_key answers.
Initialize_IgnoresKeyCheck ==
    /\ pc = "initialize"
    /\ \E dir_ok \in BOOLEAN, valid \in {ValidateApiKey(r) : r \in Responses} :
        IF ~ConfigValid(env) \/ ~dir_ok
        THEN Fail /\ requests' = requests
        ELSE /\ requests' = Append(requests, Request("validate", 0, 0, NoId, valid))
             /\ pc' = "fetch_list"
             /\ exit_code' = exit_code
    /\ UNCHANGED <<inputs, on_disk, run_no, stats, transcripts, pos, fetch, fm, report,
                   attempts, prev, call>>

\* initialize(): Config(), ensure_output_directory, FirefliesClient,
\* validate_api_key, TranscriptFormatter.
Initialize ==
    /\ pc = "initialize"
    /\ \E dir_ok \in BOOLEAN, valid \in {ValidateApiKey(r) : r \in Responses} :
        IF ~ConfigValid(env) \/ ~dir_ok
        THEN Fail /\ requests' = requests
        ELSE /\ requests' = Append(requests, Request("validate", 0, 0, NoId, valid))
             /\ IF valid = "true"
                THEN pc' = "fetch_list" /\ exit_code' = exit_code
                ELSE Fail
    /\ UNCHANGED <<inputs, on_disk, run_no, stats, transcripts, pos, fetch, fm, report,
                   attempts, prev, call>>

\* fetch_transcript_list(), up to the call of fetch_all_transcripts_in_range.
FetchTranscriptList ==
    /\ pc = "fetch_list"
    /\ IF GetDateRange(env, env.today).ok
       THEN pc' = "fetch_page" /\ exit_code' = exit_code
       ELSE Fail
    /\ fetch' = [skip |-> 0, acc |-> <<>>]
    /\ UNCHANGED <<inputs, on_disk, run_no, stats, transcripts, pos, fm, report,
                   requests, attempts, prev, call>>

\* One iteration of fetch_all_transcripts_in_range; its last one returns to
\* fetch_transcript_list, which records the total, and run() goes on to
\* process_all_transcripts.
FetchPage ==
    /\ pc = "fetch_page"
    /\ \E res \in {FetchTranscripts(env.max_per_query, fetch.skip, r,
                        ProviderPage(listing, env.max_per_query, fetch.skip)) :
                    r \in Responses} :
        LET p == env.max_per_query
            step == FetchAllStep(fetch.skip, fetch.acc, p, res)
        IN  /\ requests' = IF res.sent
                           THEN Append(requests, Request("list", p, fetch.skip, NoId, res.kind))
                           ELSE requests
            /\ fetch' = [skip |-> step.skip, acc |-> step.acc]
            /\ IF step.next = "raise"
               THEN Fail /\ UNCHANGED <<stats, transcripts>>
               ELSE IF step.next = "more"
               THEN UNCHANGED <<pc, exit_code, stats, transcripts>>
               ELSE /\ transcripts' = step.acc
                    /\ stats' = [stats EXCEPT !.total = Len(step.acc)]
                    /\ pc' = IF step.acc = <<>> THEN "summarize" ELSE "process"
                    /\ exit_code' = exit_code
    /\ UNCHANGED <<inputs, on_disk, run_no, pos, fm, report, attempts, prev, call>>

\* What went wrong for an item outside the program: the detail fetch, the
\* write of the document, or nothing; and what the write of the index came
\* to when it was reached.
Cause(det, write_ok) ==
    IF det.kind # "ok" THEN "detail" ELSE IF ~write_ok THEN "write" ELSE "none"
IndexWrite(det, write_ok, save) ==
    IF det.kind = "ok" /\ write_ok THEN save ELSE "none"

\* No document: the path of an attempt that wrote none.
NoPath == <<>>

\* process_transcript counting a failed item among the successful ones.
ProcessOne_CountsFailureAsSuccess(id, det, write_ok, save) ==
    LET sv == SaveTranscript(det.value, fm, index_file, files, write_ok, save)
        saved == det.kind = "ok" /\ sv.kind = "ok"
        indexed == IsTranscriptAlreadySaved(id, fm, index_file).result
    IN  /\ requests' = IF det.sent
                       THEN Append(requests, Request("detail", 0, 0, id, det.kind))
                       ELSE requests
        /\ IF saved
           THEN fm' = sv.fm /\ index_file' = sv.ix /\ files' = sv.fs
           ELSE UNCHANGED <<fm, index_file, files>>
        /\ stats' = [stats EXCEPT !.successful = @ + 1]
        /\ attempts' = Append(attempts,
                [id |-> id, indexed |-> indexed, fetched |-> det.sent,
                 outcome |-> IF saved THEN "saved" ELSE "failed",
                 cause |-> Cause(det, write_ok),
                 index |-> IndexWrite(det, write_ok, save),
                 path |-> IF det.kind = "ok" /\ write_ok THEN sv.path ELSE NoPath])

\* process_transcript adding to the successful downloads before it saves.
ProcessOne_CountsBeforeSaving(id, det, write_ok, save) ==
    LET sv == SaveTranscript(det.value, fm, index_file, files, write_ok, save)
        saved == det.kind = "ok" /\ sv.kind = "ok"
        indexed == IsTranscriptAlreadySaved(id, fm, index_file).result
    IN  /\ requests' = IF det.sent
                       THEN Append(requests, Request("detail", 0, 0, id, det.kind))
                       ELSE requests
        /\ IF det.kind = "ok"
           THEN /\ fm' = sv.fm
                /\ index_file' = sv.ix
                /\ files' = sv.fs
           ELSE UNCHANGED <<fm, index_file, files>>
        /\ stats' = IF saved THEN [stats EXCEPT !.successful = @ + 1]
                     ELSE IF det.kind = "ok"
                     THEN [stats EXCEPT !.successful = @ + 1, !.failed = @ + 1]
                     ELSE [stats EXCEPT !.failed = @ + 1]
        /\ attempts' = Append(attempts,
                [id |-> id, indexed |-> indexed, fetched |-> det.sent,
                 outcome |-> IF saved THEN "saved" ELSE "failed",
                 cause |-> Cause(det, write_ok),
                 index |-> IndexWrite(det, write_ok, save),
                 path |-> IF det.kind = "ok" /\ write_ok THEN sv.path ELSE NoPath])

\* process_transcript(transcripts[pos]) and the step of the loop of
\* process_all_transcripts around it.  det is the outcome of the detail
\* fetch; write_ok and save tell what the disk does.
ProcessOne(id, det, write_ok, save) ==
    LET sv == SaveTranscript(det.value, fm, index_file, files, write_ok, save)
        saved == det.kind = "ok" /\ sv.kind = "ok"
        indexed == IsTranscriptAlreadySaved(id, fm, index_file).result
    IN  /\ requests' = IF det.sent
                       THEN Append(requests, Request("detail", 0, 0, id, det.kind))
                       ELSE requests
        /\ IF det.kind = "ok"
           THEN /\ fm' = sv.fm
                /\ index_file' = sv.ix
                /\ files' = sv.fs
           ELSE UNCHANGED <<fm, index_file, files>>
        /\ stats' = IF saved THEN [stats EXCEPT !.successful = @ + 1]
                     ELSE [stats EXCEPT !.failed = @ + 1]
        /\ attempts' = Append(attempts,
                [id |-> id, indexed |-> indexed, fetched |-> det.sent,
                 outcome |-> IF saved THEN "saved" ELSE "failed",
                 cause |-> Cause(det, write_ok),
                 index |-> IndexWrite(det, write_ok, save),
                 path |-> IF det.kind = "ok" /\ write_ok THEN sv.path ELSE NoPath])

DetailOutcomes(id) ==
    {FetchTranscriptDetails(id, r, found) : r \in Responses, found \in BOOLEAN}

ProcessTranscript ==
    /\ pc = "process"
    /\ \E det \in DetailOutcomes(transcripts[pos]), write_ok \in BOOLEAN,
          save \in {"ok", "dump_fails"} :
            ProcessOne(transcripts[pos], det, write_ok, save)
    /\ pos' = pos + 1
    /\ pc' = IF pos = Len(transcripts) THEN "summarize" ELSE "process"
    /\ UNCHANGED <<inputs, run_no, transcripts, fetch, exit_code, report, prev, call>>

\* run() reporting success when nothing failed.
Summarize_SuccessIffNoFailure ==
    /\ pc = "summarize"
    /\ report' = [printed |-> TRUE, stats |-> stats]
    /\ exit_code' = IF stats.failed = 0 THEN Exited(0) ELSE Exited(1)
    /\ pc' = "exit"
    /\ UNCHANGED <<inputs, on_disk, run_no, stats, transcripts, pos, fetch, fm,
                   requests, attempts, prev, call>>

\* The end of run(): generate_summary_report, then "return successful > 0",
\* which main turns into the exit code.
Summarize ==
    /\ pc = "summarize"
    /\ report' = [printed |-> TRUE, stats |-> stats]
    /\ exit_code' = IF stats.successful > 0 THEN Exited(0) ELSE Exited(1)
    /\ pc' = "exit"
    /\ UNCHANGED <<inputs, on_disk, run_no, stats, transcripts, pos, fetch, fm,
                   requests, attempts, prev, call>>

\* The process dies inside save_transcript, after the document of
\* transcripts[pos] was written and before record_transcript_saved is
\* called: it is killed, or a KeyboardInterrupt passes the "except Exception"
\* of save_transcript and ends run().  Nothing is counted.
CrashAfterWrite ==
    /\ pc = "process"
    /\ \E det \in DetailOutcomes(transcripts[pos]) :
        /\ det.kind = "ok"
        /\ LET id == transcripts[pos]
               sv == SaveTranscript(det.value, fm, index_file, files, TRUE, "ok")
           IN  /\ files' = sv.fs
               /\ requests' = Append(requests, Request("detail", 0, 0, id, det.kind))
               /\ attempts' = Append(attempts,
                       [id |-> id,
                        indexed |-> IsTranscriptAlreadySaved(id, fm, index_file).result,
                        fetched |-> TRUE, outcome |-> "crashed", cause |-> "crash",
                        index |-> "none", path |-> sv.path])
    /\ Fail
    /\ UNCHANGED <<inputs, index_file, run_no, stats, transcripts, pos, fetch, fm,
                   report, prev, call>>

\* run() printing the summary report when it is interrupted.
Interrupt_ReportsSummary ==
    /\ pc \in {"initialize", "fetch_list", "fetch_page", "process", "summarize"}
    /\ Fail
    /\ report' = [printed |-> TRUE, stats |-> stats]
    /\ UNCHANGED <<inputs, on_disk, run_no, stats, transcripts, pos, fetch, fm,
                   requests, attempts, prev, call>>

\* KeyboardInterrupt while run() is at work: "except KeyboardInterrupt:
\* return False".
Interrupt ==
    /\ pc \in {"initialize", "fetch_list", "fetch_page", "process", "summarize"}
    /\ Fail
    /\ UNCHANGED <<inputs, on_disk, run_no, stats, transcripts, pos, fetch, fm, report,
                   requests, attempts, prev, call>>

\* A new process against the same environment, provider and output directory.
Restart ==
    /\ pc = "exit"
    /\ run_no < MaxRuns
    /\ run_no' = run_no + 1
    /\ pc' = "main"
    /\ stats' = ZeroStats
    /\ transcripts' = <<>>
    /\ pos' = 1
    /\ fetch' = [skip |-> 0, acc |-> <<>>]
    /\ fm' = NewFormatter
    /\ exit_code' = Running
    /\ report' = NoReport
    /\ requests' = <<>>
    /\ attempts' = <<>>
    /\ prev' = [ended |-> TRUE,
                saved_all |-> /\ report.printed
                              /\ report.stats.total = Len(listing)
                              /\ report.stats.successful = report.stats.total,
                index_file |-> index_file,
                files |-> files,
                orphan |-> IF attempts # <<>> /\ Last(attempts).outcome = "crashed"
                           THEN Last(attempts).path ELSE NoPath]
    /\ UNCHANGED <<inputs, on_disk, call>>

Next ==
    \/ Main
    \/ Initialize
    \/ FetchTranscriptList
    \/ FetchPage
    \/ ProcessTranscript
    \/ CrashAfterWrite
    \/ Summarize
    \/ Interrupt
    \/ Restart

Spec == Init /\ [][Next]_vars

\* One lifetime of the process that keeps running: main and run() are
\* sequential code whose every blocking call returns (the requests have a
\* timeout, the sleeps are finite), so a step of the program that can be
\* taken is taken in the end.  Interruptions and crashes may or may not come.
ProgramStep ==
    \/ Main
    \/ Initialize
    \/ FetchTranscriptList
    \/ FetchPage
    \/ ProcessTranscript
    \/ Summarize

NextLifetime ==
    \/ ProgramStep
    \/ CrashAfterWrite
    \/ Interrupt

\* The lifetimes: every page size up to the largest, 0 (which Config
\* rejects) included, and a current date the relative range fails on, against
\* listings of every length.
LifetimeEnvs ==
    {[GoodEnv EXCEPT !.max_per_query = n] : n \in 0..MaxPageSize}
    \cup {[GoodEnv EXCEPT !.today = <<2024, 3, 31>>]}
LifetimeListings ==
    {[k \in 1..n |-> IF k % 2 = 1 THEN "t1" ELSE "t2"] : n \in 0..MaxListing}

InitLifetime ==
    /\ argv_help \in BOOLEAN
    /\ env \in LifetimeEnvs
    /\ listing \in LifetimeListings
    /\ run_no = 1
    /\ index_file = MissingFile
    /\ files = EmptyMap
    /\ prev = NoPrev
    /\ call = NoCall
    /\ Fresh

SpecLifetime == InitLifetime /\ [][NextLifetime]_vars /\ WF_vars(ProgramStep)

\* ------------------------------------------------- the client on its own
\* The client's operations called directly, with any arguments.
ClientListings == SeqsUpTo(Ids \cup {NoId}, MaxHeld)
Limits == (0..MaxPageSize) \cup {ApiMaxLimit, ApiMaxLimit + 1}
Skips == {-1, 0, 1}

\* What the provider may answer a list request with: the page, or a shorter
\* beginning of it.
ProviderAnswers(limit, skip_) ==
    LET page == IF skip_ < 0 THEN <<>> ELSE ProviderPage(listing, limit, skip_)
    IN  {SubSeq(page, 1, n) : n \in 0..Len(page)}

ErrorOf(res) == IF res.kind = "ok" THEN "none" ELSE res.kind

\* _make_graphql_request(query, variables), answered by r.
ClientExecute ==
    /\ call.status = "idle"
    /\ \E r \in Responses :
        LET res == MakeGraphqlRequest(r)
        IN  call' = [NoCall EXCEPT
                        !.op = "execute", !.resp = r, !.sent = 1,
                        !.status = IF res.kind = "data" THEN "returned" ELSE "raised",
                        !.error = IF res.kind = "data" THEN "none" ELSE res.kind,
                        !.code = res.code]
    /\ UNCHANGED <<inputs, on_disk, pc, run_no, stats, transcripts, pos, fetch, fm,
                   exit_code, report, requests, attempts, prev>>

\* fetch_transcripts(from, to, limit, skip).
ClientList ==
    /\ call.status = "idle"
    /\ \E limit \in Limits, skip_ \in Skips, r \in Responses :
        \E page \in ProviderAnswers(limit, skip_) :
            LET res == FetchTranscripts(limit, skip_, r, page)
            IN  call' = [NoCall EXCEPT
                            !.op = "list", !.limit = limit, !.skip = skip_, !.resp = r,
                            !.sent = IF res.sent THEN 1 ELSE 0,
                            !.status = IF res.kind = "ok" THEN "returned" ELSE "raised",
                            !.error = ErrorOf(res), !.code = res.code,
                            !.acc = res.value]
    /\ UNCHANGED <<inputs, on_disk, pc, run_no, stats, transcripts, pos, fetch, fm,
                   exit_code, report, requests, attempts, prev>>

\* fetch_all_transcripts_in_range(from, to, max_per_query) is entered.
ClientFetchAll ==
    /\ call.status = "idle"
    /\ \E p \in Limits :
        call' = [NoCall EXCEPT !.op = "fetch_all", !.status = "running", !.limit = p]
    /\ UNCHANGED <<inputs, on_disk, pc, run_no, stats, transcripts, pos, fetch, fm,
                   exit_code, report, requests, attempts, prev>>

\* One iteration of its loop; the last one returns all_transcripts.
ClientFetchAllStep ==
    /\ call.op = "fetch_all"
    /\ call.status = "running"
    /\ \E r \in Responses :
        \E page \in ProviderAnswers(call.limit, call.skip) :
            LET res == FetchTranscripts(call.limit, call.skip, r, page)
                step == FetchAllStep(call.skip, call.acc, call.limit, res)
            IN  call' = [call EXCEPT
                            !.skip = step.skip,
                            !.acc = step.acc,
                            !.log = IF res.sent THEN Append(@, call.skip) ELSE @,
                            !.pages = IF res.kind = "ok" THEN Append(@, res.value) ELSE @,
                            !.sent = IF res.sent THEN @ + 1 ELSE @,
                            !.error = ErrorOf(res),
                            !.status = IF step.next = "raise" THEN "raised"
                                       ELSE IF step.next = "done" THEN "returned"
                                       ELSE "running"]
    /\ UNCHANGED <<inputs, on_disk, pc, run_no, stats, transcripts, pos, fetch, fm,
                   exit_code, report, requests, attempts, prev>>

\* _make_graphql_request calls session.post.
ClientPost ==
    /\ call.status = "idle"
    /\ call' = [NoCall EXCEPT !.op = "post", !.status = "running", !.sent = 1]
    /\ UNCHANGED <<inputs, on_disk, pc, run_no, stats, transcripts, pos, fetch, fm,
                   exit_code, report, requests, attempts, prev>>

\* One attempt of the adapter; after the last one _make_graphql_request
\* classifies what session.post ended with.
ClientPostAttempt ==
    /\ call.op = "post"
    /\ call.status = "running"
    /\ \E a \in WireAttempts :
        LET res == MakeGraphqlRequest(PostResult(a))
        IN  IF SendsAgain(call.wire, a)
            THEN call' = [call EXCEPT !.wire = Append(@, a)]
            ELSE call' = [call EXCEPT
                            !.wire = Append(@, a),
                            !.resp = PostResult(a),
                            !.status = IF res.kind = "data" THEN "returned" ELSE "raised",
                            !.error = IF res.kind = "data" THEN "none" ELSE res.kind]
    /\ UNCHANGED <<inputs, on_disk, pc, run_no, stats, transcripts, pos, fetch, fm,
                   exit_code, report, requests, attempts, prev>>

\* validate_api_key(), answered by r.
ClientValidate ==
    /\ call.status = "idle"
    /\ \E r \in Responses :
        LET valid == ValidateApiKey(r)
        IN  call' = [NoCall EXCEPT
                        !.op = "validate", !.resp = r, !.sent = 1,
                        !.status = IF valid = "raise" THEN "raised" ELSE "returned",
                        !.error = IF valid = "raise" THEN "api_error" ELSE "none",
                        !.answer = IF valid = "raise" THEN "none" ELSE valid]
    /\ UNCHANGED <<inputs, on_disk, pc, run_no, stats, transcripts, pos, fetch, fm,
                   exit_code, report, requests, attempts, prev>>

\* fetch_transcript_details(transcript_id), answered by r.
ClientDetail ==
    /\ call.status = "idle"
    /\ \E id \in Ids \cup {NoId}, r \in Responses, member \in TranscriptMembers :
        LET res == FetchTranscriptDetails(id, r, Truthy(member))
        IN  call' = [NoCall EXCEPT
                        !.op = "detail", !.id = id, !.resp = r, !.member = member,
                        !.sent = IF res.sent THEN 1 ELSE 0,
                        !.status = IF res.kind = "ok" THEN "returned" ELSE "raised",
                        !.error = ErrorOf(res), !.code = res.code,
                        !.value = res.value]
    /\ UNCHANGED <<inputs, on_disk, pc, run_no, stats, transcripts, pos, fetch, fm,
                   exit_code, report, requests, attempts, prev>>

\* The caller takes the result; the client is ready for the next call.
ClientDone ==
    /\ call.status \in {"returned", "raised"}
    /\ call' = NoCall
    /\ UNCHANGED <<inputs, on_disk, pc, run_no, stats, transcripts, pos, fetch, fm,
                   exit_code, report, requests, attempts, prev>>

InitClient ==
    /\ argv_help = FALSE
    /\ env = GoodEnv
    /\ listing \in ClientListings
    /\ run_no = 1
    /\ index_file = MissingFile
    /\ files = EmptyMap
    /\ prev = NoPrev
    /\ call = NoCall
    /\ Fresh

NextClient ==
    \/ ClientExecute
    \/ ClientList
    \/ ClientFetchAll
    \/ ClientFetchAllStep
    \/ ClientPost
    \/ ClientPostAttempt
    \/ ClientValidate
    \/ ClientDetail
    \/ ClientDone

SpecClient == InitClient /\ [][NextClient]_vars

\* ------------------------------------------------------ Config on its own
\* Config() constructed from an environment and asked for its date range.
\* The environments: every combination of values at and next to the limits
\* of the validation; every number of months with current dates early in,
\* late in and at the end of long and short months, January and a leap
\* February among them; and the date overrides in every form.
Todays ==
    {<<2024, 1, 15>>, <<2024, 1, 31>>, <<2024, 2, 29>>, <<2023, 3, 29>>,
     <<2024, 3, 29>>, <<2024, 3, 30>>, <<2024, 3, 31>>, <<2024, 5, 31>>,
     <<2024, 12, 31>>}
OverrideDates == {<<2024, 1, 1>>, <<2024, 3, 15>>, <<2024, 6, 1>>}
Overrides ==
    {Unset, Blank, BadText}
    \cup {DateText(d) : d \in OverrideDates} \cup {AwareText(d) : d \in OverrideDates}
ConfigEnvs ==
    {[GoodEnv EXCEPT !.api_key_len = k, !.https = h, !.months = m, !.max_per_query = q] :
        k \in {0, MinApiKeyLen - 1, MinApiKeyLen}, h \in BOOLEAN,
        m \in {0, 1, MaxMonths, MaxMonths + 1},
        q \in {0, 1, MaxPerQueryCap, MaxPerQueryCap + 1}}
    \cup {[GoodEnv EXCEPT !.months = m, !.today = d] : m \in 1..MaxMonths, d \in Todays}
    \cup {[GoodEnv EXCEPT !.from_ov = f, !.to_ov = t] : f \in Overrides, t \in Overrides}
    \cup {[GoodEnv EXCEPT !.from_ov = DateText(<<2024, 1, 1>>), !.months = m,
                          !.today = d] : m \in 1..MaxMonths, d \in Todays}

\* Config().
ConfigConstruct ==
    /\ call.status = "idle"
    /\ call' = [NoCall EXCEPT
                    !.op = "config",
                    !.status = IF ConfigValid(env) THEN "returned" ELSE "raised",
                    !.error = IF ConfigValid(env) THEN "none" ELSE "value_error"]
    /\ UNCHANGED <<inputs, on_disk, pc, run_no, stats, transcripts, pos, fetch, fm,
                   exit_code, report, requests, attempts, prev>>

\* config.get_date_range() on the constructed Config.
ConfigGetDateRange ==
    /\ call.op = "config"
    /\ call.status = "returned"
    /\ LET r == GetDateRange(env, env.today)
       IN  call' = [NoCall EXCEPT
                        !.op = "date_range",
                        !.status = IF r.ok THEN "returned" ELSE "raised",
                        !.error = r.error,
                        !.value = r]
    /\ UNCHANGED <<inputs, on_disk, pc, run_no, stats, transcripts, pos, fetch, fm,
                   exit_code, report, requests, attempts, prev>>

InitConfig ==
    /\ argv_help = FALSE
    /\ env \in ConfigEnvs
    /\ listing = <<>>
    /\ run_no = 1
    /\ index_file = MissingFile
    /\ files = EmptyMap
    /\ prev = NoPrev
    /\ call = NoCall
    /\ Fresh

NextConfig ==
    \/ ConfigConstruct
    \/ ConfigGetDateRange

SpecConfig == InitConfig /\ [][NextConfig]_vars

\* ---------------------------------------------- sanitize_filename on its own
\* sanitize_filename(title, max_length) called directly.  The titles are all
\* the short ones over a letter, a blank, an underscore, a dot and an unsafe
\* character; max_length is the default, or small enough to cut them.
TitleChars == {"a", " ", "_", ".", "!"}
Titles == SeqsUpTo(TitleChars, MaxTitleLen)
MaxLengths == {2, 3, MaxFilenameLen}

Sanitize ==
    /\ call.status = "idle"
    /\ \E title \in Titles, max_length \in MaxLengths :
        call' = [NoCall EXCEPT !.op = "sanitize", !.status = "returned",
                                !.value = title, !.limit = max_length,
                                !.name = SanitizeFilename(title, max_length)]
    /\ UNCHANGED <<inputs, on_disk, pc, run_no, stats, transcripts, pos, fetch, fm,
                   exit_code, report, requests, attempts, prev>>

InitSanitize ==
    /\ argv_help = FALSE
    /\ env = GoodEnv
    /\ listing = <<>>
    /\ run_no = 1
    /\ index_file = MissingFile
    /\ files = EmptyMap
    /\ prev = NoPrev
    /\ call = NoCall
    /\ Fresh

NextSanitize == Sanitize

SpecSanitize == InitSanitize /\ [][NextSanitize]_vars

\* ---------------------------------------------------------------- rendering
\* A text is the sequence of its pieces, each a string: the rendered string is
\* the pieces in order.  Digits and the characters of names, titles and
\* utterances are pieces of one character; the literals of the format strings
\* are one piece each.

\* sep.join(texts)
RECURSIVE Join(_, _)
Join(texts, sep) ==
    IF texts = <<>> THEN <<>>
    ELSE IF Len(texts) = 1 THEN Head(texts)
    ELSE Head(texts) \o sep \o Join(Tail(texts), sep)

\* f"{n:02d}" of a number that is not negative
Pad2(n) == IF n < 10 THEN <<"0">> \o Decimal(n) ELSE Decimal(n)

\* The values the provider's JSON holds where a string or a list is expected:
\* null, a string (its characters) or a list (its items).
Null == [type |-> "null", v |-> <<>>]
Str(chars) == [type |-> "str", v |-> chars]
List(items) == [type |-> "list", v |-> items]
\* bool(x): None, "" and [] are false
Bool(x) == x.type # "null" /\ x.v # <<>>

\* An optional number: absent, or the number.
NoNumber == <<>>
Number(n) == <<n>>

FormatDuration_DropsZeroMinutes(duration_minutes) ==
    IF duration_minutes = NoNumber \/ duration_minutes[1] = 0 THEN <<"Unknown">>
    ELSE LET hours == duration_minutes[1] \div 60
             minutes == duration_minutes[1] % 60
         IN  IF hours > 0 /\ minutes = 0 THEN Decimal(hours) \o <<"h">>
             ELSE IF hours > 0
                  THEN Decimal(hours) \o <<"h ">> \o Decimal(minutes) \o <<"m">>
             ELSE Decimal(minutes) \o <<"m">>

\* format_duration of an absent duration or a whole number of minutes that is
\* not negative.
FormatDuration(duration_minutes) ==
    IF duration_minutes = NoNumber \/ duration_minutes[1] = 0 THEN <<"Unknown">>
    ELSE LET hours == duration_minutes[1] \div 60
             minutes == duration_minutes[1] % 60
         IN  IF hours > 0
             THEN Decimal(hours) \o <<"h ">> \o Decimal(minutes) \o <<"m">>
             ELSE Decimal(minutes) \o <<"m">>

\* The lists list(set(...)) can give: the set's items in any order.
RECURSIVE Orders(_)
Orders(S) ==
    IF S = {} THEN {<<>>}
    ELSE UNION {{<<x>> \o rest : rest \in Orders(S \ {x})} : x \in S}

Items(seq) == {seq[k] : k \in 1..Len(seq)}

\* participants + fireflies_users, each made [] when it is no list
Combined(participants, fireflies_users) ==
    (IF participants.type = "list" THEN participants.v ELSE <<>>)
    \o (IF fireflies_users.type = "list" THEN fireflies_users.v ELSE <<>>)

FormatParticipants_CountsShown(participants, fireflies_users, all_participants) ==
    IF ~Bool(participants) /\ ~Bool(fireflies_users)
    THEN <<"No participants recorded">>
    ELSE IF Len(all_participants) <= 5 THEN Join(all_participants, <<", ">>)
    ELSE Join(SubSeq(all_participants, 1, 3), <<", ">>)
         \o <<" and ">> \o Decimal(Len(all_participants)) \o <<" others">>

\* format_participants, all_participants being the list list(set(...)) gave
FormatParticipants(participants, fireflies_users, all_participants) ==
    IF ~Bool(participants) /\ ~Bool(fireflies_users)
    THEN <<"No participants recorded">>
    ELSE IF Len(all_participants) <= 5 THEN Join(all_participants, <<", ">>)
    ELSE LET shown == SubSeq(all_participants, 1, 3)
             remaining == Len(all_participants) - 3
         IN  Join(shown, <<", ">>) \o <<" and ">> \o Decimal(remaining)
             \o <<" others">>

\* The names of the people: p1, p2, ...
Person(k) == <<"p">> \o Decimal(k)
\* The participant lists: null, a string where the list should be, the first
\* n people, and a list naming one person twice.
ParticipantLists ==
    {Null, Str(<<"x">>), List(<<Person(1), Person(1)>>)}
    \cup {List([k \in 1..n |-> Person(k)]) : n \in 0..MaxPeople}
\* The internal-user lists: null, the last n people, and one of the first.
UserLists ==
    {Null, List(<<Person(1)>>)}
    \cup {List([k \in 1..n |-> Person(MaxPeople + 1 - k)]) : n \in 0..2}

\* A key the JSON object does not hold: dict.get gives its default.
Missing == [type |-> "missing", v |-> <<>>]
Get(x, default) == IF x.type = "missing" THEN default ELSE x.v
GetNumber(x, default) == IF x = NoNumber THEN default ELSE x[1]

\* speaker_name.replace("*", "").replace("_", "\\_")
RECURSIVE SpeakerClean(_)
SpeakerClean(name) ==
    IF name = <<>> THEN <<>>
    ELSE IF Head(name) = "*" THEN SpeakerClean(Tail(name))
    ELSE IF Head(name) = "_" THEN <<"\\", "_">> \o SpeakerClean(Tail(name))
    ELSE <<Head(name)>> \o SpeakerClean(Tail(name))

FormattedLine_KeepsBlank(sentence) ==
    LET text == Get(sentence.text, <<>>)
        speaker_name == Get(sentence.speaker_name, <<"Unknown Speaker">>)
        start_time == GetNumber(sentence.start_time, 0)
        minutes == start_time \div 60
        seconds == start_time % 60
        timestamp == <<"[">> \o Pad2(minutes) \o <<":">> \o Pad2(seconds) \o <<"]">>
    IN  IF text = <<>> THEN <<>>
        ELSE << <<"**">> \o timestamp \o <<" ">> \o SpeakerClean(speaker_name)
                \o <<"**: ">> \o Strip(text, Whitespace) >>

\* The line of one utterance, or no line: the loop body of
\* format_transcript_sentences.
FormattedLine(sentence) ==
    LET text == Strip(Get(sentence.text, <<>>), Whitespace)
        speaker_name == Get(sentence.speaker_name, <<"Unknown Speaker">>)
        start_time == GetNumber(sentence.start_time, 0)
        minutes == start_time \div 60
        seconds == start_time % 60
        timestamp == <<"[">> \o Pad2(minutes) \o <<":">> \o Pad2(seconds) \o <<"]">>
    IN  IF text = <<>> THEN <<>>
        ELSE << <<"**">> \o timestamp \o <<" ">> \o SpeakerClean(speaker_name)
                \o <<"**: ">> \o text >>

\* formatted_content after the loop over the sentences
RECURSIVE FormattedContent(_)
FormattedContent(sentences) ==
    IF sentences = <<>> THEN <<>>
    ELSE FormattedLine(Head(sentences)) \o FormattedContent(Tail(sentences))

FormatTranscriptSentences(sentences) ==
    IF ~Bool(sentences) THEN <<"No transcript content available.">>
    ELSE Join(FormattedContent(sentences.v), <<"\n\n">>)

\* A JSON object: its members by key.
Dict(members) == [type |-> "dict", v |-> members]
\* bool(x) of an object or null: None and {} are false
DictBool(x) == x.type = "dict" /\ DOMAIN x.v # {}
\* dict.get(key): None when the key is absent
Member(x, key) == IF key \in DOMAIN x.v THEN x.v[key] ELSE Null

\* x and isinstance(x, str) and x.strip()
Usable(x) == Bool(x) /\ x.type = "str" /\ Strip(x.v, Whitespace) # <<>>

SummaryParts(summary) ==
    (IF Usable(Member(summary, "action_items"))
     THEN << <<"**Action Items:**\n">> \o Member(summary, "action_items").v >>
     ELSE <<>>)
    \o (IF Usable(Member(summary, "keywords"))
        THEN << <<"**Keywords:**\n">> \o Member(summary, "keywords").v >>
        ELSE <<>>)
    \o (IF Usable(Member(summary, "outline"))
        THEN << <<"**Outline:**\n">> \o Member(summary, "outline").v >>
        ELSE <<>>)

FormatSummary(summary) ==
    IF ~DictBool(summary) THEN <<"No summary available.">>
    ELSE IF SummaryParts(summary) = <<>> THEN <<"No summary details available.">>
    ELSE Join(SummaryParts(summary), <<"\n\n">>)

\* The date string of the provider: null, a string that is no ISO 8601 date
\* (its characters), or the ISO 8601 string of <<year, month, day, hour,
\* minute>> in UTC (type "iso").
\* format_date: strftime("%B %d, %Y at %I:%M %p UTC")
FormatDate(date_string) ==
    IF date_string.type = "null" \/ date_string.v = <<>> THEN <<"Unknown">>
    ELSE IF date_string.type # "iso" THEN date_string.v
    ELSE LET dt == date_string.v
             MonthName ==
                 <<"January", "February", "March", "April", "May", "June", "July",
                   "August", "September", "October", "November", "December">>
         IN  <<MonthName[dt[2]], " ">> \o Pad2(dt[3]) \o <<", ">> \o Decimal(dt[1])
             \o <<" at ">> \o Pad2(((dt[4] + 11) % 12) + 1) \o <<":">>
             \o Pad2(dt[5]) \o <<" ">>
             \o <<IF dt[4] < 12 THEN "AM" ELSE "PM">> \o <<" UTC">>

SummarySection_OmitsEmpty(summary) ==
    IF DictBool(summary) /\ SummaryParts(summary) # <<>>
    THEN << <<"## Meeting Summary">>, <<>>, FormatSummary(summary), <<>> >>
    ELSE <<>>

\* The parts create_markdown_content appends for the summary.
SummarySection(summary) ==
    IF DictBool(summary)
    THEN << <<"## Meeting Summary">>, <<>>, FormatSummary(summary), <<>> >>
    ELSE <<>>

\* create_markdown_content, all_participants being the list list(set(...))
\* gave format_participants.
CreateMarkdownContent(transcript_data, all_participants) ==
    LET title == Get(transcript_data.title, <<"Untitled Meeting">>)
        organizer_email == Get(transcript_data.organizer_email, <<"Unknown">>)
        transcript_url == Get(transcript_data.transcript_url, <<>>)
        markdown_parts ==
            << <<"# ">> \o title,
               <<>>,
               <<"## Meeting Details">>,
               <<>>,
               <<"**Date**: ">> \o FormatDate(transcript_data.dateString),
               <<"**Duration**: ">> \o FormatDuration(transcript_data.duration),
               <<"**Organizer**: ">> \o organizer_email,
               <<"**Participants**: ">>
                   \o FormatParticipants(transcript_data.participants,
                                         transcript_data.fireflies_users,
                                         all_participants) >>
            \o (IF transcript_url # <<>>
                THEN << <<"**Fireflies Link**: ">> \o transcript_url >>
                ELSE <<>>)
            \o << <<>> >>
            \o SummarySection(transcript_data.summary)
            \o << <<"## Transcript">>,
                  <<>>,
                  FormatTranscriptSentences(transcript_data.sentences) >>
    IN  Join(markdown_parts, <<"\n">>)

\* The utterances: text that is absent, empty, blank, plain or padded; a
\* speaker that is absent or needs escaping; a start that is absent or on
\* either side of a minute.
Utterances ==
    [text : {Missing, Str(<<>>), Str(<<" ">>), Str(<<"h", "i">>),
             Str(<<" ", "o", "k", " ">>)},
     speaker_name : {Missing, Str(<<"*", "a", "_", "b">>)},
     start_time : {NoNumber, Number(5), Number(59), Number(60), Number(754)}]
SentenceLists == {Null} \cup {List(ss) : ss \in SeqsUpTo(Utterances, MaxUtterances)}

\* The members of a summary: null, empty, blank, a text, and a list where the
\* string should be.
SummaryValues ==
    {Null, Str(<<>>), Str(<<" ">>), Str(<<"d", "o">>), List(<<"k">>)}
SummaryKeys == {"action_items", "keywords", "outline"}
Summaries ==
    {Null, Dict([key \in {} |-> Null])}
    \cup {Dict(members) : members \in [SummaryKeys -> SummaryValues]}

\* The transcripts rendered: one of each summary, and one for each other way
\* a member can be absent.
BaseTranscript ==
    [title |-> Str(<<"a">>), organizer_email |-> Str(<<"o">>),
     participants |-> List(<<Person(1)>>), fireflies_users |-> Null,
     duration |-> Number(45), dateString |-> [type |-> "iso", v |-> <<2024, 3, 15, 14, 5>>],
     transcript_url |-> Str(<<"u">>), summary |-> Null,
     sentences |-> List(<<[text |-> Str(<<"h", "i">>), speaker_name |-> Missing,
                          start_time |-> Number(60)]>>)]
Rendered ==
    {[BaseTranscript EXCEPT !.summary = summary] : summary \in Summaries}
    \cup {[BaseTranscript EXCEPT !.title = Missing, !.organizer_email = Missing,
                                 !.transcript_url = Missing, !.duration = NoNumber,
                                 !.dateString = date, !.sentences = Null,
                                 !.participants = Null]
          : date \in {Null, Str(<<"?">>),
                      [type |-> "iso", v |-> <<2023, 12, 1, 0, 30>>]}}

RenderDuration ==
    /\ call.status = "idle"
    /\ \E duration \in {NoNumber} \cup {Number(d) : d \in 0..MaxDuration} :
        call' = [NoCall EXCEPT !.op = "format_duration", !.status = "returned",
                                !.value = duration,
                                !.name = FormatDuration(duration)]
    /\ UNCHANGED <<inputs, on_disk, pc, run_no, stats, transcripts, pos, fetch, fm,
                   exit_code, report, requests, attempts, prev>>

RenderParticipants ==
    /\ call.status = "idle"
    /\ \E participants \in ParticipantLists, fireflies_users \in UserLists :
        \E all_participants \in Orders(Items(Combined(participants, fireflies_users))) :
            call' = [NoCall EXCEPT
                        !.op = "format_participants", !.status = "returned",
                        !.value = <<participants, fireflies_users>>,
                        !.name = FormatParticipants(participants, fireflies_users,
                                                    all_participants)]
    /\ UNCHANGED <<inputs, on_disk, pc, run_no, stats, transcripts, pos, fetch, fm,
                   exit_code, report, requests, attempts, prev>>

RenderSentences ==
    /\ call.status = "idle"
    /\ \E sentences \in SentenceLists :
        call' = [NoCall EXCEPT
                    !.op = "format_transcript_sentences", !.status = "returned",
                    !.value = sentences,
                    !.name = FormatTranscriptSentences(sentences)]
    /\ UNCHANGED <<inputs, on_disk, pc, run_no, stats, transcripts, pos, fetch, fm,
                   exit_code, report, requests, attempts, prev>>

RenderDocument ==
    /\ call.status = "idle"
    /\ \E transcript_data \in Rendered :
        \E all_participants \in
                Orders(Items(Combined(transcript_data.participants,
                                      transcript_data.fireflies_users))) :
            call' = [NoCall EXCEPT
                        !.op = "create_markdown_content", !.status = "returned",
                        !.value = transcript_data,
                        !.name = CreateMarkdownContent(transcript_data,
                                                       all_participants)]
    /\ UNCHANGED <<inputs, on_disk, pc, run_no, stats, transcripts, pos, fetch, fm,
                   exit_code, report, requests, attempts, prev>>

NextRender ==
    \/ RenderDuration
    \/ RenderParticipants
    \/ RenderSentences
    \/ RenderDocument

SpecRender == InitSanitize /\ [][NextRender]_vars

\* ------------------------------------------- the formatter on its own
\* The save-index and save_transcript called directly, against an output
\* directory that the user may change between the calls.
Names == {<<"b">> \o Extension}
DiskOutcomes == {"ok", "open_fails", "dump_fails"}
\* The transcripts handed to save_transcript: one with an id, one without.
SavedIds == {"t2", NoId}
IndexFiles ==
    {MissingFile, CorruptFile, FileWith(Put(EmptyMap, "t1", <<"a">> \o Extension))}

Answer(b) == IF b THEN "true" ELSE "false"

\* save_transcript has written the document and not yet recorded the id.
Saving == call.op = "save" /\ call.status = "written"

\* TranscriptFormatter(output_directory): a new instance, as every run makes.
IndexNewInstance ==
    /\ ~Saving
    /\ fm' = NewFormatter
    /\ call' = [NoCall EXCEPT !.op = "new", !.status = "returned"]
    /\ UNCHANGED <<inputs, on_disk, pc, run_no, stats, transcripts, pos, fetch,
                   exit_code, report, requests, attempts, prev>>

\* is_transcript_already_saved(id).
IndexContains ==
    /\ ~Saving
    /\ \E id \in Ids \cup {NoId} :
        LET r == IsTranscriptAlreadySaved(id, fm, index_file)
        IN  /\ fm' = r.fm
            /\ call' = [NoCall EXCEPT !.op = "contains", !.status = "returned",
                                      !.id = id, !.answer = Answer(r.result)]
    /\ UNCHANGED <<inputs, on_disk, pc, run_no, stats, transcripts, pos, fetch,
                   exit_code, report, requests, attempts, prev>>

\* record_transcript_saved(id, file_path).
IndexRecord ==
    /\ ~Saving
    /\ \E id \in Ids \cup {NoId}, name \in Names, disk \in DiskOutcomes :
        LET r == RecordTranscriptSaved(id, name, fm, index_file, disk)
        IN  /\ fm' = r.fm
            /\ index_file' = r.ix
            /\ call' = [NoCall EXCEPT !.op = "record", !.status = "returned",
                                      !.id = id, !.name = name, !.disk = disk]
    /\ UNCHANGED <<inputs, files, pc, run_no, stats, transcripts, pos, fetch,
                   exit_code, report, requests, attempts, prev>>

\* save_transcript(transcript_data), up to and including the write of the
\* document: it raises when the write fails, and goes on to record the id
\* otherwise.  What the rest of the call does to the index is kept in
\* call.value until IndexSaveRecord has done it.
IndexSaveTranscript ==
    /\ ~Saving
    /\ Cardinality(DOMAIN files) < MaxDocs
    /\ \E id \in SavedIds, write_ok \in BOOLEAN :
        \* the index is written only after the document was
        \E disk \in IF write_ok THEN DiskOutcomes ELSE {"ok"} :
        LET sv == SaveTranscript(DetailOf(id), fm, index_file, files, write_ok, disk)
        IN  /\ files' = sv.fs
            /\ IF sv.kind = "ok"
               THEN /\ UNCHANGED <<fm, index_file>>
                    /\ call' = [NoCall EXCEPT
                            !.op = "save", !.id = id, !.name = sv.path, !.disk = disk,
                            !.status = "written",
                            !.value = [fm |-> sv.fm, ix |-> sv.ix]]
               ELSE /\ fm' = sv.fm
                    /\ index_file' = sv.ix
                    /\ call' = [NoCall EXCEPT
                            !.op = "save", !.id = id, !.name = sv.path, !.disk = disk,
                            !.status = "raised", !.error = sv.kind]
    /\ UNCHANGED <<inputs, pc, run_no, stats, transcripts, pos, fetch,
                   exit_code, report, requests, attempts, prev>>

\* The rest of save_transcript: record_transcript_saved(id, file_path), and
\* the return of the path.
IndexSaveRecord ==
    /\ Saving
    /\ fm' = call.value.fm
    /\ index_file' = call.value.ix
    /\ call' = [call EXCEPT !.status = "returned", !.value = NoCall.value]
    /\ UNCHANGED <<inputs, files, pc, run_no, stats, transcripts, pos, fetch,
                   exit_code, report, requests, attempts, prev>>

\* The user deletes a document by hand.
IndexDeleteDocument ==
    /\ ~Saving
    /\ \E name \in DOMAIN files :
        files' = [x \in DOMAIN files \ {name} |-> files[x]]
    /\ call' = [NoCall EXCEPT !.op = "delete_document"]
    /\ UNCHANGED <<inputs, index_file, pc, run_no, stats, transcripts, pos, fetch, fm,
                   exit_code, report, requests, attempts, prev>>

\* The index file is deleted, or overwritten with something that is no JSON,
\* from outside the program.
IndexOutside ==
    /\ ~Saving
    /\ \E f \in {MissingFile, CorruptFile} :
        /\ index_file' = f
        /\ call' = [NoCall EXCEPT !.op = "outside"]
    /\ UNCHANGED <<inputs, files, pc, run_no, stats, transcripts, pos, fetch, fm,
                   exit_code, report, requests, attempts, prev>>

InitIndex ==
    /\ argv_help = FALSE
    /\ env = GoodEnv
    /\ listing = <<>>
    /\ run_no = 1
    /\ index_file \in IndexFiles
    /\ files = EmptyMap
    /\ prev = NoPrev
    /\ call = NoCall
    /\ Fresh

NextIndex ==
    \/ IndexNewInstance
    \/ IndexContains
    \/ IndexRecord
    \/ IndexSaveTranscript
    \/ IndexSaveRecord
    \/ IndexDeleteDocument
    \/ IndexOutside

SpecIndex == InitIndex /\ [][NextIndex]_vars

\* ------------------------------------------------- properties of the run
Indices(q) == 1..Len(q)
Count(q, outcome) == Cardinality({k \in Indices(q) : q[k].outcome = outcome})
ListRequests == {k \in Indices(requests) : requests[k].kind = "list"}
DetailRequests == {k \in Indices(requests) : requests[k].kind = "detail"}
KindRank(kind) == IF kind = "validate" THEN 1 ELSE IF kind = "list" THEN 2 ELSE 3
InitSucceeded ==
    /\ requests # <<>>
    /\ requests[1].kind = "validate"
    /\ requests[1].result = "true"
ListingReturned == ListRequests # {} /\ \A k \in ListRequests : requests[k].result = "ok"
ListingFailed == \E k \in ListRequests : requests[k].result # "ok"
AllListedIndexed(ix) ==
    ix.state = "ok" /\ \A k \in Indices(listing) : listing[k] \in DOMAIN ix.map

\* C1: A listed transcript whose id is in the save-index when its turn comes
\* is not detail-fetched and not written, and is counted as skipped.
C1_IndexedTranscriptsAreSkipped ==
    /\ \A k \in Indices(attempts) :
        attempts[k].indexed =>
            ~attempts[k].fetched /\ attempts[k].outcome = "skipped"
    /\ stats.skipped = Cardinality({k \in Indices(attempts) : attempts[k].indexed})

\* C2: A run that follows, on the same output directory and listing, a run
\* that saved every listed transcript sends no detail request, leaves the
\* documents and the index as they were and reports 0 successful and every
\* listed item skipped.
C2_RerunIsIdempotent ==
    (/\ prev.ended
     /\ prev.saved_all
     /\ AllListedIndexed(prev.index_file)
     /\ report.printed)
    => /\ DetailRequests = {}
       /\ files = prev.files
       /\ index_file = prev.index_file
       /\ report.stats.successful = 0
       /\ report.stats.skipped = Len(listing)

\* C3: Each failed item adds one to the failed counter and nothing to the
\* successful one, and the loop goes on: the items are attempted once each in
\* listing order, all of them by the time the loop has finished.
C3_FailureCountedLoopContinues ==
    /\ Len(attempts) <= Len(transcripts)
    /\ \A k \in Indices(attempts) : attempts[k].id = transcripts[k]
    /\ stats.failed = Count(attempts, "failed")
    /\ stats.successful = Count(attempts, "saved")
    /\ pc = "process" => pos = Len(attempts) + 1
    /\ (pc = "summarize" \/ report.printed) => Len(attempts) = Len(transcripts)

C3_Witness ==
    /\ report.printed
    /\ \E j, k \in Indices(attempts) :
        j < k /\ attempts[j].outcome = "failed" /\ attempts[k].outcome = "saved"

\* C4: A process that started a run exits with 0 exactly when the run reached
\* its summary with at least one successful download; otherwise with 1.
C4_ExitCodeZeroIffSuccess ==
    /\ pc # "exit" => exit_code = Running
    /\ pc = "exit" => exit_code \in {Exited(0), Exited(1)}
    /\ (pc = "exit" /\ ~argv_help) =>
        (exit_code = Exited(0) <=> (report.printed /\ report.stats.successful > 0))

C4_Witness ==
    /\ pc = "exit"
    /\ ~argv_help
    /\ exit_code = Exited(0)
    /\ report.stats.failed > 0

\* C5: The requests of a run go out in the order validate, list, detail; a
\* list request is sent only after the key validation answered true, items
\* are processed only after every list request returned, the summary comes
\* only after the whole listing was processed, and a failed initialization
\* or listing is the end of the run.
C5_PhasesInOrder ==
    /\ \A j, k \in Indices(requests) :
        j < k => /\ KindRank(requests[j].kind) <= KindRank(requests[k].kind)
                 /\ requests[k].kind # "validate"
    /\ (ListRequests # {} \/ pc \in {"fetch_list", "fetch_page", "process", "summarize"})
        => InitSucceeded
    /\ (attempts # <<>> \/ pc \in {"process", "summarize"} \/ report.printed)
        => InitSucceeded /\ ListingReturned
    /\ (pc = "summarize" \/ report.printed) => Len(attempts) = Len(transcripts)
    /\ report.printed => pc = "exit"
    /\ (requests # <<>> /\ requests[1].result # "true")
        => Len(requests) = 1 /\ pc = "exit" /\ attempts = <<>> /\ ~report.printed
    /\ \A k \in ListRequests :
        requests[k].result # "ok"
            => k = Len(requests) /\ pc = "exit" /\ attempts = <<>> /\ ~report.printed

C5_Witness ==
    /\ report.printed
    /\ Len(attempts) = 2
    /\ Cardinality(ListRequests) >= 2

\* C6: A run whose configuration is invalid, an unparsable or inverted
\* absolute date range included, sends no network request.
C6_ConfigErrorBeforeAnyRequest ==
    (\/ ~ConfigValid(env)
     \/ IsSet(env.from_ov) /\ ~GetDateRange(env, env.today).ok)
    => requests = <<>>

\* C7: Once a list request has failed, the run is over with exit code 1: no
\* request follows, the pages received before are not handed on, nothing is
\* processed or saved and the counters are all 0.
C7_ListingFailureIsFatal ==
    ListingFailed =>
        /\ Last(requests).kind = "list"
        /\ DetailRequests = {}
        /\ transcripts = <<>>
        /\ attempts = <<>>
        /\ stats = ZeroStats
        /\ files = prev.files
        /\ index_file = prev.index_file
        /\ ~report.printed
        /\ pc = "exit"
        /\ exit_code = Exited(1)

C7_Witness ==
    /\ ListingFailed
    /\ fetch.acc # <<>>

\* ----------------------------------------------- properties of the client
\* C8: With a page size p in 1..50 the list requests of fetch_all carry skip
\* 0, p, 2p, ...; the first page shorter than p (empty included) is the last
\* one requested; the result is the pages received, in order, unchanged.
C8_PaginationStopsAndConcatenates ==
    (call.op = "fetch_all" /\ call.limit \in 1..ApiMaxLimit) =>
        /\ call.sent = Len(call.log)
        /\ \A k \in Indices(call.log) : call.log[k] = (k - 1) * call.limit
        /\ \A k \in Indices(call.pages) :
            Len(call.pages[k]) < call.limit
                => /\ k = Len(call.pages)
                   /\ Len(call.log) = k
                   /\ call.status = "returned"
        /\ call.status = "running" => Len(call.log) = Len(call.pages)
        /\ call.status = "returned"
            => /\ call.pages # <<>>
               /\ Len(Last(call.pages)) < call.limit
        /\ call.status \in {"running", "returned"} => call.acc = Concat(call.pages)

C8_Witness ==
    /\ call.op = "fetch_all"
    /\ call.status = "returned"
    /\ call.limit = 2
    /\ Len(call.pages) = 2
    /\ Len(call.pages[2]) = 1
    /\ call.acc[1] = call.acc[3]

\* C9: fetch_transcripts with limit > 50 or skip < 0 raises ValueError and
\* sends no request; with other arguments it sends exactly one.
C9_ListRejectsBadArguments ==
    call.op = "list" =>
        IF call.limit > ApiMaxLimit \/ call.skip < 0
        THEN call.status = "raised" /\ call.error = "value_error" /\ call.sent = 0
        ELSE call.sent = 1 /\ call.error # "value_error"

C9_Witness ==
    /\ call.op = "list"
    /\ call.skip < 0
    /\ call.limit <= ApiMaxLimit
    /\ call.status = "raised"

\* C10: _make_graphql_request returns exactly when the response has a status
\* below 400, a JSON body that parses, no non-empty errors and a data member;
\* otherwise it raises FirefliesAPIError, with the first error's code when
\* the failure is a GraphQL error that has one.
GoodResponse(r) ==
    /\ r.transport = "ok"
    /\ r.status < 400
    /\ r.body = "object"
    /\ r.errors # "nonempty"
    /\ r.has_data

C10_RequestRaisesOnlyApiError ==
    call.op = "execute" =>
        /\ call.status = "returned" <=> GoodResponse(call.resp)
        /\ call.status = "raised" => call.error = "api_error"
        /\ (call.resp.errors = "nonempty" /\ call.resp.ext = "code") => call.code = "E1"

\* The failure of the request carries a message with "authentication" or
\* "unauthorized" in it: the client's own text for HTTP 401, or the provider's
\* text in an HTTP error or a GraphQL error.
LooksLikeAuthFailure(r) ==
    /\ r.transport = "ok"
    /\ \/ r.status = 401
       \/ r.status >= 400 /\ r.status # 429 /\ r.auth_text
       \/ r.status < 400 /\ r.body = "object" /\ r.errors = "nonempty" /\ r.auth_text

\* C11: validate_api_key returns true when the query succeeds, returns false
\* only when the request failed with an error that looks like an
\* authentication failure, and raises the API error in every other case.
C11_ValidateFalseOnlyOnAuthFailure ==
    call.op = "validate" =>
        /\ GoodResponse(call.resp) => call.status = "returned" /\ call.answer = "true"
        /\ call.answer = "true" => GoodResponse(call.resp)
        /\ call.answer = "false" => LooksLikeAuthFailure(call.resp)
        /\ (~GoodResponse(call.resp) /\ ~LooksLikeAuthFailure(call.resp))
            => call.status = "raised" /\ call.error = "api_error"

\* The attempts of a POST that were followed by another one.
Resent == {k \in Indices(call.wire) : k < Len(call.wire) \/ call.status = "running"}

\* C12 as claimed: a POST goes over the wire at most 3 times in total, is sent
\* again after a response only when its status is 429 or 5xx, and is never
\* sent again after another 4xx response, which the caller gets at once.
C12_AtMostThreeAttempts ==
    call.op = "post" =>
        /\ Len(call.wire) <= 3
        /\ \A k \in Resent :
            ~call.wire[k].error
                => call.wire[k].status = 429 \/ call.wire[k].status \in 500..599
        /\ \A k \in Indices(call.wire) :
            (call.wire[k].status \in 400..499 /\ call.wire[k].status # 429)
                => /\ k = Len(call.wire)
                   /\ call.status = "raised"
                   /\ call.error = "api_error"

\* C12 amended: a POST goes over the wire at most 4 times in total (the
\* first attempt and 3 retries); it is sent again after a response only
\* when the status is 429, 500, 502, 503 or 504, or 413 with a Retry-After
\* header; after any other 4xx response it is not sent again and the caller
\* gets the API error at once.
C12_AtMostThreeRetries ==
    call.op = "post" =>
        /\ Len(call.wire) <= RetryTotal + 1
        /\ \A k \in Resent :
            ~call.wire[k].error
                => \/ call.wire[k].status \in {429, 500, 502, 503, 504}
                   \/ call.wire[k].status = 413 /\ call.wire[k].retry_after
        /\ \A k \in Indices(call.wire) :
            (/\ call.wire[k].status \in 400..499
             /\ call.wire[k].status # 429
             /\ ~(call.wire[k].status = 413 /\ call.wire[k].retry_after))
                => /\ k = Len(call.wire)
                   /\ call.status = "raised"
                   /\ call.error = "api_error"
        /\ call.status # "running"
            => (call.status = "returned" <=> Last(call.wire).status \in 1..399)

C12_Witness ==
    /\ call.op = "post"
    /\ call.status = "raised"
    /\ Len(call.wire) = RetryTotal + 1
    /\ call.wire[1].status = 500
    /\ Last(call.wire).status = 404

\* A call with arguments the client accepts.
WellFormedCall ==
    /\ call.op = "list" => call.limit <= ApiMaxLimit /\ call.skip >= 0
    /\ call.op = "detail" => call.id # NoId

\* C13: A timeout, a connection error or another transport exception makes
\* request execution, list and detail raise the API error, and nothing but
\* the API error is raised by a well-formed call of any of the three.
C13_OnlyApiErrorEscapes ==
    (call.op \in {"execute", "list", "detail"} /\ WellFormedCall) =>
        /\ call.resp.transport # "ok"
            => call.status = "raised" /\ call.error = "api_error"
        /\ call.status = "raised" => call.error = "api_error"

\* C14: fetch_transcript_details raises the API error whenever the response
\* has no transcript record (the member absent, null or an empty record) and
\* returns the record otherwise, never an empty one.
C14_DetailNotFoundRaises ==
    (call.op = "detail" /\ call.id # NoId) =>
        /\ call.member # "record"
            => call.status = "raised" /\ call.error = "api_error"
        /\ call.status = "returned"
            => call.member = "record" /\ call.value = DetailOf(call.id)
        /\ (GoodResponse(call.resp) /\ call.member = "record")
            => call.status = "returned"

C14_Witness ==
    /\ call.op = "detail"
    /\ call.id # NoId
    /\ GoodResponse(call.resp)
    /\ call.member = "empty"
    /\ call.status = "raised"

\* ------------------------------------------- properties of the save-index
\* The mapping a readable index file holds; none for a missing or corrupt one.
Content(ix) == IF ix.state = "ok" THEN ix.map ELSE EmptyMap
\* The mapping an instance works with: its own once loaded, the file's before.
View(f, ix) == IF f.index_loaded THEN f.id_index ELSE Content(ix)
Has(m, id, name) == id \in DOMAIN m /\ m[id] = name
Keeps(old, new) == \A k \in DOMAIN old : k \in DOMAIN new
KeepsOthers(old, new, id) ==
    \A k \in (DOMAIN old \cup DOMAIN new) \ {id} :
        k \in DOMAIN old /\ k \in DOMAIN new /\ old[k] = new[k]

\* C15 as claimed: after any record(id, name) with a non-empty id, a new
\* instance on the same directory contains id, maps it to name, and contains
\* every id the recording instance had before the call.
C15_RecordRoundTrip ==
    [][(call'.op = "record" /\ call'.id # NoId) =>
        LET fresh == IsTranscriptAlreadySaved(call'.id, NewFormatter, index_file')
        IN  /\ fresh.result
            /\ Has(fresh.fm.id_index, call'.id, call'.name)
            /\ Keeps(View(fm, index_file), fresh.fm.id_index)]_vars

\* C15 amended: the same, for a record call whose write of the index file
\* did not fail.
C15_RecordRoundTripWhenWritten ==
    [][(call'.op = "record" /\ call'.id # NoId /\ call'.disk = "ok") =>
        LET fresh == IsTranscriptAlreadySaved(call'.id, NewFormatter, index_file')
        IN  /\ fresh.result
            /\ Has(fresh.fm.id_index, call'.id, call'.name)
            /\ Keeps(View(fm, index_file), fresh.fm.id_index)]_vars

C15_Witness ==
    /\ call.op = "record"
    /\ call.id = "t2"
    /\ call.disk = "ok"
    /\ index_file.state = "ok"
    /\ Has(index_file.map, "t2", call.name)
    /\ "t1" \in DOMAIN index_file.map

\* C16: An instance reads the index file at most once: not when it is
\* constructed, but in its first contains, record or save that needs the
\* mapping; a missing or corrupt file gives the empty mapping and the call
\* returns; from then on the instance's mapping changes only by its own
\* records, whatever happens to the file.
C16_IndexLoadedOnceLazily ==
    [][/\ call'.op = "new" => fm' = NewFormatter
       /\ (call'.op \in {"contains", "record"} /\ call'.id # NoId)
            => fm'.index_loaded /\ call'.status = "returned"
       /\ (~fm.index_loaded /\ fm'.index_loaded)
            => /\ call'.op \in {"contains", "record", "save"}
               /\ call'.id # NoId
               /\ fm'.id_index =
                    IF call'.op = "contains" THEN Content(index_file)
                    ELSE Put(Content(index_file), call'.id, call'.name)
       /\ (fm.index_loaded /\ call'.op # "new")
            => /\ fm'.index_loaded
               /\ \/ fm'.id_index = fm.id_index
                  \/ /\ call'.op \in {"record", "save"}
                     /\ call'.id # NoId
                     /\ fm'.id_index = Put(fm.id_index, call'.id, call'.name)]_vars

C16_Witness ==
    /\ call.op = "contains"
    /\ call.answer = "true"
    /\ index_file.state = "corrupt"

\* C17: contains(id) answers false for an empty id and leaves the instance
\* unloaded; for another id it answers whether the id is a key of the loaded
\* mapping; it leaves the mapping, the index file and the documents alone.
C17_ContainsIsMembership ==
    [][call'.op = "contains" =>
        /\ index_file' = index_file
        /\ files' = files
        /\ IF call'.id = NoId
           THEN call'.answer = "false" /\ fm' = fm
           ELSE /\ call'.answer = Answer(call'.id \in DOMAIN View(fm, index_file))
                /\ fm'.id_index = View(fm, index_file)]_vars

C17_Witness ==
    /\ call.op = "contains"
    /\ call.id = NoId
    /\ call.answer = "false"
    /\ ~fm.index_loaded
    /\ index_file.state = "ok"

\* C18 as claimed: record with an empty id changes neither the mapping nor
\* the index file; with another id it sets mapping[id] to the name, leaves
\* the other entries as they were, and the file holds the whole mapping when
\* it returns.
C18_RecordRewritesIndexFile ==
    [][call'.op = "record" =>
        IF call'.id = NoId
        THEN fm' = fm /\ index_file' = index_file
        ELSE /\ Has(fm'.id_index, call'.id, call'.name)
             /\ KeepsOthers(View(fm, index_file), fm'.id_index, call'.id)
             /\ index_file' = FileWith(fm'.id_index)]_vars

\* C18 amended: the same, but the file holds the whole mapping only when the
\* write succeeds; a failed write is swallowed: the call still returns, and
\* the file is as it was (it could not be opened) or unreadable (the write
\* broke off).
C18_RecordRewritesIndexFileUnlessWriteFails ==
    [][call'.op = "record" =>
        IF call'.id = NoId
        THEN fm' = fm /\ index_file' = index_file
        ELSE /\ Has(fm'.id_index, call'.id, call'.name)
             /\ KeepsOthers(View(fm, index_file), fm'.id_index, call'.id)
             /\ call'.status = "returned"
             /\ call'.disk = "ok" => index_file' = FileWith(fm'.id_index)
             /\ call'.disk = "open_fails" => index_file' = index_file
             /\ call'.disk = "dump_fails" => index_file'.state = "corrupt"]_vars

C18_Witness ==
    /\ call.op = "record"
    /\ call.id = "t1"
    /\ call.disk = "ok"
    /\ Has(fm.id_index, "t1", call.name)
    /\ "t2" \in DOMAIN fm.id_index
    /\ index_file = FileWith(fm.id_index)

\* C19 as claimed: after every record call that returns, the index file
\* holds exactly the in-memory mapping.
C19_FileEqualsMemoryAfterRecord ==
    call.op = "record" => index_file = FileWith(fm.id_index)

\* C19 amended: after every record call with a non-empty id whose write of
\* the index file succeeded, made directly or by save_transcript, the index
\* file holds exactly the in-memory mapping.
C19_FileEqualsMemoryAfterWrittenRecord ==
    (/\ call.op \in {"record", "save"}
     /\ call.status = "returned"
     /\ call.id # NoId
     /\ call.disk = "ok")
    => fm.index_loaded /\ index_file = FileWith(fm.id_index)

C19_Witness ==
    /\ call.op = "save"
    /\ call.status = "returned"
    /\ call.disk = "ok"
    /\ Cardinality(DOMAIN fm.id_index) = 2
    /\ index_file = FileWith(fm.id_index)

\* C20: Whatever the program does (contains, record, save, a new run) and
\* whether or not a document is deleted by hand, an id that the index file
\* holds is held by it afterwards; only a change of the file from outside
\* ends that.
C20_IndexEntriesNeverRemoved ==
    [][(index_file.state = "ok" /\ call'.op # "outside") =>
        /\ index_file'.state = "ok"
        /\ Keeps(index_file.map, index_file'.map)]_vars

\* C21: A failure to load or to save the index neither aborts the run nor
\* fails the save: every item whose document was written is counted as
\* successful and not as failed, whatever became of the index write, and the
\* loop goes on.
C21_IndexFailureNeverFailsASave ==
    [][(Len(attempts') > Len(attempts) /\ Last(attempts').index # "none") =>
        /\ Last(attempts').outcome = "saved"
        /\ stats'.successful = stats.successful + 1
        /\ stats'.failed = stats.failed
        /\ DOMAIN files' # DOMAIN files
        /\ pc' \in {"process", "summarize"}]_vars

C21_Witness ==
    /\ report.printed
    /\ report.stats.successful = 2
    /\ \E k \in Indices(attempts) :
        attempts[k].index = "dump_fails" /\ attempts[k].outcome = "saved"
    /\ index_file = CorruptFile

\* C23: When the document cannot be written, the index is left as it was in
\* memory and on disk, and the item is counted as failed and not as
\* successful.
C23_WriteFailureLeavesIndexAlone ==
    [][(Len(attempts') > Len(attempts) /\ Last(attempts').cause = "write") =>
        /\ Last(attempts').outcome = "failed"
        /\ fm' = fm
        /\ index_file' = index_file
        /\ stats'.failed = stats.failed + 1
        /\ stats'.successful = stats.successful]_vars

C23_Witness ==
    /\ attempts # <<>>
    /\ Last(attempts).cause = "write"
    /\ Last(attempts).outcome = "failed"
    /\ stats.successful > 0
    /\ Content(index_file) # EmptyMap

\* C22: save_transcript writes the document before it touches the index:
\* when the document is written, to a name that was free, the index is still
\* as it was; an id enters the index, in memory or in the file, only in the
\* rest of a save whose document is on disk, and under the name that was
\* written, suffix included.
C22_DocumentBeforeIndex ==
    [][/\ (call'.op = "save" /\ call'.status = "written") =>
            /\ call'.name \notin DOMAIN files
            /\ files' = Put(files, call'.name, call'.id)
            /\ fm' = fm
            /\ index_file' = index_file
       /\ (call'.op = "save" /\ (fm' # fm \/ index_file' # index_file)) =>
            /\ Saving
            /\ call'.status = "returned"
            /\ Has(files, call.name, call.id)
            /\ files' = files
            /\ KeepsOthers(View(fm, index_file), fm'.id_index, call.id)
            /\ call.id # NoId => Has(fm'.id_index, call.id, call.name)
            /\ (call.id # NoId /\ call.disk = "ok") =>
                    index_file' = FileWith(fm'.id_index)]_vars

C22_Witness ==
    /\ call.op = "save"
    /\ call.status = "returned"
    /\ call.id # NoId
    /\ call.name = <<"a", "_", "1">> \o Extension
    /\ Has(files, call.name, call.id)
    /\ Has(Content(index_file), call.id, call.name)

\* The name save_transcript first chooses for a transcript, and that name
\* with the suffix _n.
BaseName(id) == SanitizeFilename(TitleOf(id), MaxFilenameLen) \o Extension
Suffixed(name, n) == Stem(name) \o <<"_">> \o Decimal(n) \o Extension

\* C24: Documents whose titles sanitize to the same base name go to distinct
\* files: a save never writes over a document, it takes base.md when that is
\* free, and otherwise base_n.md for the smallest n >= 1 that is free.
C24_CollisionsTakeSmallestFreeSuffix ==
    [][(call'.op = "save" /\ call'.status = "written") =>
        LET base == BaseName(call'.id)
        IN  /\ call'.name \notin DOMAIN files
            /\ \A other \in DOMAIN files : files'[other] = files[other]
            /\ base \notin DOMAIN files => call'.name = base
            /\ base \in DOMAIN files =>
                \E n \in 1..MaxDocs :
                    /\ call'.name = Suffixed(base, n)
                    /\ \A m \in 1..(n - 1) : Suffixed(base, m) \in DOMAIN files]_vars

C24_Witness ==
    /\ call.op = "save"
    /\ call.status = "returned"
    /\ call.name = <<"a", "_", "1">> \o Extension
    /\ DOMAIN files = {<<"a">> \o Extension, <<"a", "_", "1">> \o Extension,
                       <<"a", "_", "2">> \o Extension}

\* C25: For every title and every max_length, sanitizing the sanitized name
\* gives it back, and the sanitized name is not empty, at most max_length
\* long, free of unsafe characters and whitespace, and neither starts nor
\* ends with an underscore or a dot.
C25_SanitizeIdempotentAndTotal ==
    call.op = "sanitize" =>
        LET name == call.name
        IN  /\ SanitizeFilename(name, call.limit) = name
            /\ name # <<>>
            /\ Len(name) <= call.limit
            /\ \A k \in 1..Len(name) : name[k] \notin UnsafeChars \cup Whitespace
            /\ Head(name) \notin {"_", "."}
            /\ Last(name) \notin {"_", "."}

\* The date n calendar months before d: the month counted back across the
\* turn of the year, the day kept, or the last day of the month when the
\* month is too short for it.
CalendarMonthsBack(d, n) ==
    LET months == d[1] * 12 + (d[2] - 1) - n
        y == months \div 12
        m == (months % 12) + 1
    IN  <<y, m, IF d[3] > DaysInMonth(y, m) THEN DaysInMonth(y, m) ELSE d[3]>>

\* C26: Without a 'from' override, get_date_range returns for every number of
\* months from 1 to 12 and every current date: the start is the current date
\* moved back that many calendar months, the end is the current time.
C26_RelativeRangeAlwaysComputed ==
    (call.op = "date_range" /\ ~IsSet(env.from_ov)) =>
        /\ call.status = "returned"
        /\ call.value.from = CalendarMonthsBack(env.today, env.months)
        /\ call.value.to = env.today

\* C27: With a 'from' override that parses (and a 'to' override that parses
\* or is left out, the current time taking its place), get_date_range raises
\* a validation error when from is after to, and returns exactly (from, to)
\* otherwise; a range it returns never starts after its end.
C27_AbsoluteRangeOrdered ==
    (/\ call.op = "date_range"
     /\ ParseIsoDatetime(env.from_ov).ok
     /\ IsSet(env.to_ov) => ParseIsoDatetime(env.to_ov).ok) =>
        LET from == env.from_ov.d
            to == IF IsSet(env.to_ov) THEN env.to_ov.d ELSE env.today
        IN  /\ ~DateLE(from, to) =>
                call.status = "raised" /\ call.error = "value_error"
            /\ DateLE(from, to) =>
                /\ call.status = "returned"
                /\ call.value.from = from
                /\ call.value.to = to
            /\ call.status = "returned" => DateLE(call.value.from, call.value.to)

\* C28: Config() returns only for an API key that is not empty and has the
\* minimum length, a base URL that starts with https://, 1 to 12 months and
\* 1 to 50 transcripts per page; for every other environment it raises a
\* validation error.
C28_ConfigValidation ==
    LET in_range ==
            /\ env.api_key_len > 0
            /\ env.api_key_len >= MinApiKeyLen
            /\ env.https
            /\ env.months \in 1..MaxMonths
            /\ env.max_per_query \in 1..MaxPerQueryCap
    IN  /\ call.op = "config" =>
            /\ call.status = "returned" <=> in_range
            /\ call.status = "raised" <=> ~in_range
            /\ call.status = "raised" => call.error = "value_error"
        /\ call.op = "date_range" => in_range

C28_Witness ==
    /\ call.op = "config"
    /\ call.status = "raised"
    /\ env.api_key_len = MinApiKeyLen
    /\ env.months = MaxMonths
    /\ env.max_per_query = MaxPerQueryCap
    /\ ~env.https

\* A run on an empty output directory that reached its summary, with the
\* whole listing in hand, distinct non-empty ids, and every detail fetch
\* successful.
DistinctIds(q) == \A j, k \in Indices(q) : j # k => q[j] # q[k]
EndToEndRun ==
    /\ report.printed
    /\ prev.files = EmptyMap
    /\ prev.index_file = MissingFile
    /\ transcripts = listing
    /\ DistinctIds(listing)
    /\ \A k \in Indices(listing) : listing[k] # NoId
    /\ \A k \in Indices(attempts) : attempts[k].cause # "detail"

\* What C29 says of the end of such a run: exactly n documents, an index of
\* exactly n entries, one per listed id, each naming the document of that
\* id, and a report of total n, successful n, failed 0.
EndToEndOutcome ==
    LET n == Len(listing)
        index == Content(index_file)
    IN  /\ Cardinality(DOMAIN files) = n
        /\ DOMAIN index = {listing[k] : k \in Indices(listing)}
        /\ Cardinality(DOMAIN index) = n
        /\ \A id \in DOMAIN index : Has(files, index[id], id)
        /\ report.stats.total = n
        /\ report.stats.successful = n
        /\ report.stats.failed = 0

\* C29 as claimed: a completed end-to-end run on an empty output directory,
\* over a listing of n transcripts with distinct non-empty ids whose detail
\* fetches all succeed, leaves n documents and n index entries and reports
\* total n, successful n, failed 0.
C29_EndToEndAsClaimed == EndToEndRun => EndToEndOutcome

\* C29: the same, for a run in which every write of a document and of the
\* index succeeds as well.
C29_EndToEnd ==
    (/\ EndToEndRun
     /\ \A k \in Indices(attempts) :
            attempts[k].cause = "none" /\ attempts[k].index = "ok") =>
        EndToEndOutcome

C29_Witness ==
    /\ EndToEndRun
    /\ Len(listing) = 2
    /\ \A k \in Indices(attempts) :
            attempts[k].cause = "none" /\ attempts[k].index = "ok"
    /\ Cardinality(DOMAIN files) = 2
    /\ report.stats.successful = 2

\* A step in which run() is interrupted while it lists or processes: the run
\* ends there, with no request sent and no item attempted in the step.
InterruptedAtWork ==
    /\ pc \in {"fetch_list", "fetch_page", "process"}
    /\ pc' = "exit"
    /\ requests' = requests
    /\ attempts' = attempts
    /\ ~(pc = "fetch_list" /\ ~GetDateRange(env, env.today).ok)

\* C30 as claimed: an interruption during the listing or the processing loop
\* ends the run without an uncaught exception, and the summary report with
\* the statistics gathered so far is still produced.
C30_InterruptStillReports ==
    [][InterruptedAtWork =>
        /\ exit_code' # Running
        /\ report'.printed
        /\ report'.stats = stats]_vars

\* C30: an interruption during the listing or the processing loop ends the
\* run without an uncaught exception, as a failure, and no summary report is
\* produced: the statistics gathered so far stay as they are, unreported.
C30_InterruptEndsRunUnreported ==
    [][InterruptedAtWork =>
        /\ exit_code' = Exited(1)
        /\ ~report'.printed
        /\ stats' = stats
        /\ on_disk' = on_disk]_vars

C30_Witness ==
    /\ pc = "exit"
    /\ exit_code = Exited(1)
    /\ ~report.printed
    /\ attempts # <<>>
    /\ Len(attempts) < Len(transcripts)
    /\ stats.successful > 0

\* The transcript whose document the previous lifetime wrote without
\* recording it, and the attempts of this run at that transcript.
OrphanId == prev.files[prev.orphan]
FirstAttemptsAt(id) ==
    {k \in Indices(attempts) :
        attempts[k].id = id /\ \A j \in 1..(k - 1) : attempts[j].id # id}

\* C31: After a crash between the write of a document and the update of the
\* index, the document stays on disk as it was; and the next run, when the id
\* was not in the index, does not find it there, fetches the transcript again
\* and saves it to another file.
C31_CrashBeforeIndexRedownloads ==
    prev.orphan # NoPath =>
        /\ Has(files, prev.orphan, OrphanId)
        /\ OrphanId \notin DOMAIN Content(prev.index_file) =>
            \A k \in FirstAttemptsAt(OrphanId) :
                /\ ~attempts[k].indexed
                /\ attempts[k].cause \in {"none", "crash"} =>
                    /\ attempts[k].fetched
                    /\ attempts[k].path \notin {NoPath, prev.orphan}
                    /\ Has(files, attempts[k].path, OrphanId)
                /\ attempts[k].cause = "none" => attempts[k].outcome = "saved"

C31_Witness ==
    /\ prev.orphan # NoPath
    /\ OrphanId \notin DOMAIN Content(prev.index_file)
    /\ report.printed
    /\ \E k \in FirstAttemptsAt(OrphanId) : attempts[k].outcome = "saved"
    /\ Has(Content(index_file), OrphanId, <<"a", "_", "1">> \o Extension)

\* The counters of the run added up, and the listed transcripts handled so
\* far: those process_transcript has returned from.
Counted == stats.successful + stats.failed + stats.skipped
Handled == Cardinality({k \in Indices(attempts) : attempts[k].outcome # "crashed"})

\* C36: At every point of the processing loop successful + failed + skipped
\* is the number of transcripts handled so far and at most the discovered
\* total; every transcript handled changes exactly one of the three by one;
\* and when the loop has finished the sum is the discovered total.
C36_StatisticsConserved ==
    /\ [](/\ Counted = Handled
          /\ pc = "process" => Counted = pos - 1
          /\ pc \in {"process", "summarize"} => Counted <= stats.total
          /\ pc = "summarize" => Counted = stats.total
          /\ report.printed =>
                report.stats.successful + report.stats.failed + report.stats.skipped
                    = report.stats.total)
    /\ [][Handled' = Handled + 1 =>
            /\ Counted' = Counted + 1
            /\ stats'.successful >= stats.successful
            /\ stats'.failed >= stats.failed
            /\ stats'.skipped >= stats.skipped
            /\ stats'.total = stats.total]_vars

C36_Witness ==
    /\ report.printed
    /\ report.stats.total = 2
    /\ report.stats.successful = 1
    /\ report.stats.failed = 1

\* The documents this run has written, by attempt.
WrittenBy == {k \in Indices(attempts) : attempts[k].path # NoPath}

\* C38: Within one run an id is detail-fetched and saved at most once: a
\* later occurrence of an id that was saved is skipped without a fetch, the
\* run writes no more documents than there are distinct listed ids, and an
\* index entry names the only document the run wrote for its id.
C38_SavedAtMostOncePerRun ==
    /\ \A j, k \in Indices(attempts) :
        (j < k /\ attempts[j].id = attempts[k].id /\ attempts[j].outcome = "saved") =>
            /\ ~attempts[k].fetched
            /\ attempts[k].outcome = "skipped"
    /\ Cardinality(WrittenBy) <= Cardinality({transcripts[k] : k \in Indices(transcripts)})
    /\ \A j, k \in WrittenBy :
        (attempts[j].id = attempts[k].id
            /\ attempts[j].outcome = "saved" /\ attempts[k].outcome = "saved") => j = k

\* C37: save_transcript never writes over a document: the path an attempt
\* writes was not in the output directory before, and every document that
\* was there is there afterwards with the content it had.
C37_SaveNeverOverwrites ==
    [][/\ \A name \in DOMAIN files : Has(files', name, files[name])
       /\ (Len(attempts') > Len(attempts) /\ Last(attempts').path # NoPath) =>
            /\ Last(attempts').path \notin DOMAIN files
            /\ Has(files', Last(attempts').path, Last(attempts').id)]_vars

C37_Witness ==
    /\ run_no = 2
    /\ Cardinality(DOMAIN prev.files) = 2
    /\ Cardinality(DOMAIN files) = 4
    /\ \A name \in DOMAIN prev.files : Has(files, name, prev.files[name])

\* C39: With finitely many transcripts at the provider and a page size of at
\* least 1, every run comes to its end, at its summary or as a failure,
\* having sent at most one list request per full page and one more, and
\* having ended every collision loop at the latest on the suffix that counts
\* the documents in the directory.
C39_PipelineTerminates ==
    <>(/\ pc = "exit"
       /\ argv_help \/ report.printed \/ exit_code = Exited(1)
       /\ ListRequests # {} =>
            Cardinality(ListRequests) <= (Len(listing) \div env.max_per_query) + 1
       /\ \A k \in WrittenBy :
            \E n \in 0..(Cardinality(DOMAIN files) - 1) :
                attempts[k].path =
                    IF n = 0 THEN BaseName(attempts[k].id)
                    ELSE Suffixed(BaseName(attempts[k].id), n))

C39_Witness ==
    /\ pc = "exit"
    /\ report.printed
    /\ env.max_per_query = 1
    /\ Cardinality(ListRequests) = 3
    /\ Cardinality(DOMAIN files) = 2

\* ------------------------------------------------------------- C32 .. C35
\* C32: an absent or zero duration renders as "Unknown"; a positive whole
\* number of minutes d renders as "{d}m" when d < 60 and as
\* "{d div 60}h {d mod 60}m" when d >= 60; 45 gives "45m", 125 gives "2h 5m".
C32_DurationFormatting ==
    call.op = "format_duration" =>
        LET d == call.value
        IN  /\ (d = NoNumber \/ d[1] = 0) => call.name = <<"Unknown">>
            /\ (d # NoNumber /\ d[1] > 0 /\ d[1] < 60) =>
                    call.name = Decimal(d[1]) \o <<"m">>
            /\ (d # NoNumber /\ d[1] >= 60) =>
                    call.name = Decimal(d[1] \div 60) \o <<"h ">>
                                \o Decimal(d[1] % 60) \o <<"m">>
            /\ d = Number(45) => call.name = <<"4", "5", "m">>
            /\ d = Number(125) => call.name = <<"2", "h ", "5", "m">>

C32_Witness ==
    /\ call.op = "format_duration"
    /\ call.value = Number(60)
    /\ call.name = <<"1", "h ", "0", "m">>

\* The document holds the heading of the summary section.
HasSummarySection == "## Meeting Summary" \in Items(call.name)
\* The member of the summary is present and not empty.
PresentNonEmpty(summary, key) == summary.type = "dict" /\ Bool(Member(summary, key))
SummaryLabel(key) ==
    IF key = "action_items" THEN "**Action Items:**\n"
    ELSE IF key = "keywords" THEN "**Keywords:**\n"
    ELSE "**Outline:**\n"

\* C33 as claimed: the document contains the summary section only if at least
\* one of action items, keywords and outline is present and non-empty; with a
\* summary object supplied and none of the three present and non-empty, the
\* section is omitted, heading included.
C33_SummaryOmittedWhenEmpty ==
    call.op = "create_markdown_content" =>
        (HasSummarySection =>
            \E key \in SummaryKeys : PresentNonEmpty(call.value.summary, key))

\* C33, amended: the document contains the summary section exactly when a
\* summary object with at least one member is supplied, and each of action
\* items, keywords and outline appears in it only if present and non-empty;
\* with such an object and none of the three present and non-empty, the
\* section is its heading followed by "No summary details available.".
C33_SummarySection ==
    call.op = "create_markdown_content" =>
        LET summary == call.value.summary
        IN  /\ HasSummarySection <=> DictBool(summary)
            /\ \A key \in SummaryKeys :
                  SummaryLabel(key) \in Items(call.name) =>
                      PresentNonEmpty(summary, key)
            /\ ( /\ DictBool(summary)
                 /\ \A key \in SummaryKeys : ~PresentNonEmpty(summary, key) )
               => /\ HasSummarySection
                  /\ "No summary details available." \in Items(call.name)
                  /\ \A key \in SummaryKeys : SummaryLabel(key) \notin Items(call.name)

C33_Witness ==
    /\ call.op = "create_markdown_content"
    /\ call.value.summary = Dict([key \in SummaryKeys |-> Null])
    /\ HasSummarySection
    /\ "No summary details available." \in Items(call.name)

\* C34: with u the number of distinct names in the union of the participant
\* list and the internal-user list, u <= 5 renders all u names each exactly
\* once (none when u = 0), and u > 5 renders exactly 3 distinct names followed
\* by "and N others" with N = u - 3.
C34_ParticipantFormatting ==
    call.op = "format_participants" =>
        LET names == Items(Combined(call.value[1], call.value[2]))
            u == Cardinality(names)
        IN  /\ u = 0 => call.name \in {<<>>, <<"No participants recorded">>}
            /\ (u >= 1 /\ u <= 5) =>
                    \E all \in Orders(names) : call.name = Join(all, <<", ">>)
            /\ u > 5 =>
                    \E shown \in [1..3 -> names] :
                        /\ Cardinality(Items(shown)) = 3
                        /\ call.name = Join(shown, <<", ">>) \o <<" and ">>
                                       \o Decimal(u - 3) \o <<" others">>

C34_Witness ==
    /\ call.op = "format_participants"
    /\ call.value = <<List([k \in 1..(MaxPeople - 2) |-> Person(k)]),
                      List(<<Person(MaxPeople), Person(MaxPeople - 1)>>)>>
    /\ Last(call.name) = " others"

\* The utterance has text that is not empty and not only whitespace.
Spoken(sentence) ==
    /\ sentence.text.type = "str"
    /\ \E k \in 1..Len(sentence.text.v) : sentence.text.v[k] \notin Whitespace
\* The line of an utterance: bold [MM:SS] and speaker, then the text.
ClaimedLine(sentence) ==
    LET start == GetNumber(sentence.start_time, 0)
    IN  <<"**", "[">> \o Pad2(start \div 60) \o <<":">> \o Pad2(start % 60)
        \o <<"]", " ">>
        \o SpeakerClean(Get(sentence.speaker_name, <<"Unknown Speaker">>))
        \o <<"**: ">> \o Strip(sentence.text.v, Whitespace)

\* C35: the transcript body has one line per utterance with non-empty text, in
\* the original order; utterances with empty or whitespace-only text produce
\* no line; each line's timestamp is [MM:SS] with MM = start div 60 and
\* SS = start mod 60, which is in 0..59.
C35_TranscriptBody ==
    (call.op = "format_transcript_sentences" /\ Bool(call.value)) =>
        LET spoken == SelectSeq(call.value.v, Spoken)
        IN  /\ call.name =
                   Join([k \in 1..Len(spoken) |-> ClaimedLine(spoken[k])], <<"\n\n">>)
            /\ Cardinality({k \in 1..Len(call.name) : call.name[k] = "**"})
                   = Len(spoken)
            /\ \A k \in 1..Len(spoken) :
                   GetNumber(spoken[k].start_time, 0) % 60 \in 0..59

C35_Witness ==
    /\ call.op = "format_transcript_sentences"
    /\ call.value =
          List(<<[text |-> Str(<<" ">>), speaker_name |-> Missing,
                  start_time |-> Number(5)],
                 [text |-> Str(<<" ", "o", "k", " ">>), speaker_name |-> Missing,
                  start_time |-> Number(754)]>>)
    /\ call.name = <<"**", "[", "1", "2", ":", "3", "4", "]", " ",
                     "Unknown Speaker", "**: ", "o", "k">>

\* ------------------------------------------------------------------- C40
\* C40: when the 'from' override is set and not blank, a returned range is
\* (from, 'to' override or now) and the months to fetch have no influence on
\* the outcome; when 'from' is unset or blank, a returned range is the
\* relative window of the months to fetch ending at now, and a 'to' override
\* has no influence on the outcome.
C40_DateRangePrecedence ==
    call.op = "date_range" =>
        /\ IsSet(env.from_ov) =>
            /\ call.status = "returned" =>
                /\ call.value.from = env.from_ov.d
                /\ call.value.to =
                       IF IsSet(env.to_ov) THEN env.to_ov.d ELSE env.today
            /\ \A m \in 1..MaxMonths :
                   GetDateRange([env EXCEPT !.months = m], env.today) = call.value
        /\ ~IsSet(env.from_ov) =>
            /\ call.status = "returned" =>
                /\ call.value.from = MonthsBack(env.today, env.months).d
                /\ call.value.to = env.today
            /\ \A t \in Overrides :
                   GetDateRange([env EXCEPT !.to_ov = t], env.today) = call.value

C40_Witness ==
    /\ call.op = "date_range"
    /\ call.status = "returned"
    /\ env.from_ov = DateText(<<2024, 1, 1>>)
    /\ env.today = <<2024, 3, 31>>
    /\ env.months = 1
    /\ call.value.from = <<2024, 1, 1>>
    /\ call.value.to = <<2024, 3, 31>>

====
